---- MODULE Spec2Model ----
(***************************************************************************)
(* Model of the platform-api website builder (page-builder routes,        *)
(* theme activation, block rendering).                                    *)
(*                                                                         *)
(* The database is PostgreSQL at its default READ COMMITTED isolation:    *)
(* every db.query outside BEGIN/COMMIT is one atomic, auto-committed      *)
(* statement; every await between two statements is a point where other   *)
(* requests' statements may run.                                           *)
(***************************************************************************)
EXTENDS Integers, Sequences, FiniteSets, TLC

\* ------------------------------------------------------------------------
\* Bounds
\* ------------------------------------------------------------------------
\* number of PUT /api/pages/:id requests served in one behaviour: when they
\* may overlap, and when they are served one after the other
MaxPuts == 2
MaxSeqPuts == 3
\* number of rows the pages SERIAL sequence hands out in one behaviour
MaxPages == 2
\* number of rows the themes SERIAL sequence hands out in one behaviour
MaxThemes == 3
\* number of PUT /api/themes/:id and PATCH /api/themes/:id/activate requests
\* served in one behaviour
MaxThemeReqs == 2
\* length of the block list of a render request
MaxBlocks == 2
\* blocks in one render request of the helper templates
MaxHelperBlocks == 2
\* depth of nesting below the first key of a config given to escapeBlockConfig
MaxNesting == 2

Reqs == {"r1", "r2"}
TReqs == {"q1", "q2"}
\* tenants owning pages, and the tenants the PUT requests are authenticated for
Tenants == {"t1", "t2"}
Callers == {"t1"}
NULL == "null"
\* blocks column values: the default of POST /api/pages, and what the request
\* served by each slot writes
EmptyBlocks == "[]"
BodyBlocks == [r \in Reqs |-> IF r = "r1" THEN "B1" ELSE "B2"]

VARIABLES
  pages,          \* rows of table pages: [id, tenant_id, blocks]
  page_versions,  \* rows of table page_versions: [id, page_id, version_number, blocks]
  pageSeq,        \* last value handed out by pages.id SERIAL
  versionSeq,     \* last value handed out by page_versions.id SERIAL
  req,            \* per request slot: position and locals of the PUT /api/pages/:id handler
  puts            \* PUT requests started so far

pageVars == <<pages, page_versions, pageSeq, versionSeq, req, puts>>

VARIABLES
  tenants,        \* tenants that signed up
  themes,         \* committed rows of table themes: [id, tenant_id, is_active]
  themeSeq,       \* last value handed out by themes.id SERIAL
  treq,           \* per request slot: position and locals of a theme handler
  tpending,       \* per request slot: row writes of its open transaction (id -> is_active)
  tstarted        \* theme requests started so far

themeVars == <<tenants, themes, themeSeq, treq, tpending, tstarted>>

VARIABLES
  block_types,    \* rows of table block_types: [name, template, is_enabled]
  rbody,          \* body of a POST /api/pages/render request: [isArray, blocks]
  rpc,            \* position of the render request: "request", "loaded" or "done"
  rtemplates,     \* the rows its SELECT returned, from which templates is built
  rres            \* its response: [status, html]

renderVars == <<block_types, rbody, rpc, rtemplates, rres>>

VARIABLES
  econfig,        \* argument of a call of escapeBlockConfig
  escaped         \* what the call returned, undefined before it

escapeVars == <<econfig, escaped>>

VARIABLES
  inventory,      \* committed products.inventory of the one product on sale
  inventory0,     \* what it was before any checkout
  rowLock,        \* the checkout whose open transaction updated the product row
  creq            \* per checkout: position and locals of the POST /api/checkout handler

checkoutVars == <<inventory, inventory0, rowLock, creq>>

\* no checkout
IdleCheckout ==
  /\ inventory = 0
  /\ inventory0 = 0
  /\ rowLock = "none"
  /\ creq = [c \in {} |-> 0]

VARIABLES
  rateLimitCache, \* the Map of rateLimit: key -> times of the calls it let through
  now,            \* Date.now()
  maxRequests,    \* the limit the calls are made with
  windowMs,       \* the window the calls are made with
  accepted,       \* per key, the times of the calls that returned true, as far
                  \* back as a window of length windowMs ending now or later reaches
  lastCall        \* the latest call of rateLimit: [key, result]

rateVars == <<rateLimitCache, now, maxRequests, windowMs, accepted, lastCall>>

\* rateLimit never called
IdleRate ==
  /\ rateLimitCache = << >>
  /\ now = 0
  /\ maxRequests = 0
  /\ windowMs = 0
  /\ accepted = << >>
  /\ lastCall = [key |-> "none", result |-> FALSE]

VARIABLES
  tenantStatus,   \* tenants.status per subdomain, "none" where no tenant signed up
  subdomainCache, \* Redis keys subdomain:<subdomain>: the tenant cached, or "none"
  sreq            \* position and locals of the GET /api/storefront/:subdomain handler

storeVars == <<tenantStatus, subdomainCache, sreq>>

\* no storefront
IdleStore ==
  /\ tenantStatus = << >>
  /\ subdomainCache = << >>
  /\ sreq = [pc |-> "idle"]

VARIABLES
  audit_logs,     \* rows of table audit_logs: [user_id, tenant_id], in insertion order
  areq            \* the request an authMiddleware is working on, with its position

authVars == <<audit_logs, areq>>

\* no authenticated route called
IdleAuth ==
  /\ audit_logs = << >>
  /\ areq = [pc |-> "idle"]

vars == <<pageVars, themeVars, renderVars, escapeVars, checkoutVars, rateVars, storeVars, authVars>>

\* what the page routes leave alone, and what the theme routes leave alone
notPageVars == <<themeVars, renderVars, escapeVars, checkoutVars, rateVars, storeVars, authVars>>
notThemeVars == <<pageVars, renderVars, escapeVars, checkoutVars, rateVars, storeVars, authVars>>
notRenderVars == <<pageVars, themeVars, escapeVars, checkoutVars, rateVars, storeVars, authVars>>
notEscapeVars == <<pageVars, themeVars, renderVars, checkoutVars, rateVars, storeVars, authVars>>
notCheckoutVars == <<pageVars, themeVars, renderVars, escapeVars, rateVars, storeVars, authVars>>
notRateVars == <<pageVars, themeVars, renderVars, escapeVars, checkoutVars, storeVars, authVars>>
notStoreVars == <<pageVars, themeVars, renderVars, escapeVars, checkoutVars, rateVars, authVars>>
notAuthVars == <<pageVars, themeVars, renderVars, escapeVars, checkoutVars, rateVars, storeVars>>

\* ------------------------------------------------------------------------
\* Tables pages and page_versions
\* ------------------------------------------------------------------------
\* (mutant: the tenant is left out of the WHERE clause)
PageRowsAnyTenant(id, tenantId) == {p \in pages : p.id = id}

PageIds == 1..MaxPages

\* SELECT ... FROM pages WHERE id = $1 AND tenant_id = $2
PageRows(id, tenantId) == {p \in pages : p.id = id /\ p.tenant_id = tenantId}

PageExists(id) == \E p \in pages : p.id = id

VersionsOf(id) == {v \in page_versions : v.page_id = id}

VersionNumbers(id) == {v.version_number : v \in VersionsOf(id)}

\* (mutant: the WHERE page_id = $1 is missing)
MaxVersionAllPages(id) ==
  IF page_versions = {} THEN << >>
  ELSE <<CHOOSE m \in {v.version_number : v \in page_versions} :
           \A v \in page_versions : v.version_number <= m>>

\* SELECT MAX(version_number) as max_version FROM page_versions WHERE page_id = $1
\* The one result row, as <<max_version>>, or << >> when max_version is NULL
\* (the page has no versions)
MaxVersion(id) ==
  IF VersionNumbers(id) = {} THEN << >>
  ELSE <<CHOOSE m \in VersionNumbers(id) : \A n \in VersionNumbers(id) : n <= m>>

\* (mutant: max_version || 1)
NextVersionFromOne(maxVersion) == (IF maxVersion = << >> THEN 1 ELSE maxVersion[1]) + 1

\* (latestVersion.rows[0].max_version || 0) + 1
NextVersion(maxVersion) == (IF maxVersion = << >> THEN 0 ELSE maxVersion[1]) + 1

\* (mutant: the table has no UNIQUE(page_id, version_number))
VersionNotUnique(pageId, versionNumber) == TRUE

\* UNIQUE(page_id, version_number)
VersionUnique(pageId, versionNumber) ==
  ~ \E v \in page_versions : v.page_id = pageId /\ v.version_number = versionNumber

\* page_id INTEGER NOT NULL REFERENCES pages(id)
VersionForeignKey(pageId) == PageExists(pageId)

\* COALESCE($n, column)
Coalesce(arg, column) == IF arg = NULL THEN column ELSE arg

IdleReq ==
  [pc |-> "idle", id |-> 0, tenantId |-> NULL, blocks |-> NULL,
   existing |-> <<>>, nextVersion |-> 0, inserted |-> 0, status |-> 0, err |-> "none"]

\* ------------------------------------------------------------------------
\* POST /api/pages and DELETE /api/pages/:id (one statement each). The
\* columns no version or tenant check reads (slug, title, ...) are left out;
\* a statement rejected for them is a statement that throws.
\* ------------------------------------------------------------------------
\* INSERT INTO pages (...) RETURNING *, accepted
CreatePage(tenantId) ==
  /\ pageSeq < MaxPages
  /\ pages' = pages \cup {[id |-> pageSeq + 1, tenant_id |-> tenantId,
                            blocks |-> EmptyBlocks]}
  /\ pageSeq' = pageSeq + 1
  /\ UNCHANGED <<page_versions, versionSeq, req, puts>>
  /\ UNCHANGED notPageVars

\* DELETE FROM pages WHERE id = $1 AND tenant_id = $2; page_versions rows go
\* with it (ON DELETE CASCADE)
DeletePage(id, tenantId) ==
  /\ PageRows(id, tenantId) # {}
  /\ pages' = pages \ PageRows(id, tenantId)
  /\ page_versions' = page_versions \ VersionsOf(id)
  /\ UNCHANGED <<pageSeq, versionSeq, req, puts>>
  /\ UNCHANGED notPageVars

\* ------------------------------------------------------------------------
\* PUT /api/pages/:id, one action per awaited statement
\* ------------------------------------------------------------------------
\* request arrives; SELECT blocks FROM pages WHERE id = $1 AND tenant_id = $2
PutArrive(r, id, tenantId, blocks) ==
  /\ req[r].pc \in {"idle", "done"}
  /\ puts' = puts + 1
  /\ LET rows == PageRows(id, tenantId)
         found == rows # {}
     IN req' = [req EXCEPT ![r] =
                  [IdleReq EXCEPT !.pc = IF found THEN "max" ELSE "update",
                                  !.id = id, !.tenantId = tenantId,
                                  !.blocks = blocks,
                                  !.existing = IF found
                                               THEN <<(CHOOSE p \in rows : TRUE).blocks>>
                                               ELSE <<>>]]
  /\ UNCHANGED <<pages, page_versions, pageSeq, versionSeq>>
  /\ UNCHANGED notPageVars

PutSelect(r, id, tenantId, blocks) ==
  /\ puts < MaxPuts
  /\ PutArrive(r, id, tenantId, blocks)

\* SELECT MAX(version_number) ...; nextVersion = (max || 0) + 1
PutMax(r) ==
  /\ req[r].pc = "max"
  /\ req' = [req EXCEPT ![r].pc = "insert",
                        ![r].nextVersion = NextVersion(MaxVersion(req[r].id))]
  /\ UNCHANGED <<pages, page_versions, pageSeq, versionSeq, puts>>
  /\ UNCHANGED notPageVars

\* the response is sent: the handler's locals are dead; what is kept is what
\* the request was for, the version row it wrote, and how it was answered
Respond(r, status, code) ==
  req' = [req EXCEPT ![r] = [IdleReq EXCEPT !.pc = "done", !.id = req[r].id,
                                           !.tenantId = req[r].tenantId,
                                           !.inserted = req[r].inserted,
                                           !.status = status, !.err = code]]

\* (mutant: the catch block swallows the error and the handler goes on to
\* its UPDATE)
CaughtSwallowed(r, code) == req' = [req EXCEPT ![r].pc = "update"]

\* the catch block: log, answer 500 'Failed to update page'; code names what
\* was thrown: fk_page (23503 on page_versions.page_id), dup_version (23505 on
\* UNIQUE(page_id, version_number)), store (any other rejection of the
\* statement: connection lost, 23505 on UNIQUE(tenant_id, slug), ...)
Caught(r, code) == Respond(r, 500, code)

\* INSERT INTO page_versions (page_id, version_number, blocks, created_by)
PutInsert(r) ==
  /\ req[r].pc = "insert"
  /\ IF ~ VersionForeignKey(req[r].id)
     THEN /\ Caught(r, "fk_page")
          /\ UNCHANGED <<page_versions, versionSeq>>
     ELSE IF ~ VersionUnique(req[r].id, req[r].nextVersion)
     THEN /\ Caught(r, "dup_version")
          /\ versionSeq' = versionSeq + 1
          /\ UNCHANGED page_versions
     ELSE /\ page_versions' = page_versions \cup
               {[id |-> versionSeq + 1, page_id |-> req[r].id,
                 version_number |-> req[r].nextVersion,
                 blocks |-> req[r].existing[1]]}
          /\ versionSeq' = versionSeq + 1
          /\ req' = [req EXCEPT ![r].pc = "update", ![r].inserted = versionSeq + 1]
  /\ UNCHANGED <<pages, pageSeq, puts>>
  /\ UNCHANGED notPageVars

\* UPDATE pages SET ..., blocks = COALESCE($5, blocks), ...
\* WHERE id = $8 AND tenant_id = $9 RETURNING *, accepted
PutUpdate(r) ==
  /\ req[r].pc = "update"
  /\ LET rows == PageRows(req[r].id, req[r].tenantId)
     IN IF rows = {}
        THEN \* result.rows.length === 0: 404
             /\ Respond(r, 404, "none")
             /\ UNCHANGED pages
        ELSE LET old == CHOOSE p \in rows : TRUE
                 new == [old EXCEPT !.blocks = Coalesce(req[r].blocks, old.blocks)]
             IN /\ pages' = (pages \ {old}) \cup {new}
                /\ Respond(r, 200, "none")
  /\ UNCHANGED <<page_versions, pageSeq, versionSeq, puts>>
  /\ UNCHANGED notPageVars

\* the statement the handler is waiting for is rejected (connection lost,
\* timeout, slug already taken): the await throws into the catch block
PutStoreFailure(r) ==
  /\ req[r].pc \in {"max", "insert", "update"}
  /\ Caught(r, "store")
  /\ UNCHANGED <<pages, page_versions, pageSeq, versionSeq, puts>>
  /\ UNCHANGED notPageVars

\* ------------------------------------------------------------------------
\* Specification of the page routes, requests interleaving freely
\* ------------------------------------------------------------------------
InitPages ==
  /\ pages = {}
  /\ page_versions = {}
  /\ pageSeq = 0
  /\ versionSeq = 0
  /\ req = [r \in Reqs |-> IdleReq]
  /\ puts = 0

\* the other tables stay as created by the migration
IdleThemes ==
  /\ tenants = {}
  /\ themes = {}
  /\ themeSeq = 0
  /\ treq = [q \in {} |-> 0]
  /\ tpending = [q \in {} |-> 0]
  /\ tstarted = 0

\* no render request
IdleRender ==
  /\ block_types = {}
  /\ rbody = [isArray |-> FALSE, blocks |-> << >>]
  /\ rpc = "done"
  /\ rtemplates = {}
  /\ rres = [status |-> 0, html |-> << >>]

\* no call of escapeBlockConfig on its own
IdleEscape ==
  /\ econfig = [k |-> "null"]
  /\ escaped = [k |-> "undef"]

Init == InitPages /\ IdleThemes /\ IdleRender /\ IdleEscape /\ IdleCheckout /\ IdleRate /\ IdleStore /\ IdleAuth

Next ==
  \/ \E t \in Tenants : CreatePage(t)
  \/ \E id \in PageIds, t \in Tenants : DeletePage(id, t)
  \/ \E r \in Reqs : \E id \in PageIds, t \in Callers, b \in {BodyBlocks[r], NULL} :
        PutSelect(r, id, t, b)
  \/ \E r \in Reqs : PutMax(r)
  \/ \E r \in Reqs : PutInsert(r)
  \/ \E r \in Reqs : PutUpdate(r)
  \/ \E r \in Reqs : PutStoreFailure(r)

Spec == Init /\ [][Next]_vars

\* ------------------------------------------------------------------------
\* Specification of the page routes with the PUT requests served one after
\* the other: a PUT starts only when no other PUT is between its first
\* statement and its response
\* ------------------------------------------------------------------------
PutSelectSeq(r, id, tenantId, blocks) ==
  /\ \A q \in Reqs \ {r} : req[q].pc \in {"idle", "done"}
  /\ puts < MaxSeqPuts
  /\ PutArrive(r, id, tenantId, blocks)

NextSeq ==
  \/ \E t \in Tenants : CreatePage(t)
  \/ \E id \in PageIds, t \in Tenants : DeletePage(id, t)
  \/ \E r \in Reqs : \E id \in PageIds, t \in Callers, b \in {BodyBlocks[r], NULL} :
        PutSelectSeq(r, id, t, b)
  \/ \E r \in Reqs : PutMax(r)
  \/ \E r \in Reqs : PutInsert(r)
  \/ \E r \in Reqs : PutUpdate(r)
  \/ \E r \in Reqs : PutStoreFailure(r)

SpecSeq == Init /\ [][NextSeq]_vars

\* ------------------------------------------------------------------------
\* Table themes. A row written inside BEGIN..COMMIT is locked by its
\* transaction and invisible to the others until COMMIT; a statement that has
\* to write a locked row waits for the lock.
\* ------------------------------------------------------------------------
ThemeIds == 1..MaxThemes

NoWrites == [i \in {} |-> FALSE]

IdleTReq == [pc |-> "idle", kind |-> "none", id |-> 0, tenantId |-> NULL,
             is_active |-> << >>, status |-> 0]

\* ids of the rows WHERE tenant_id = $1
ThemeIdsOfTenant(tenantId) == {t.id : t \in {u \in themes : u.tenant_id = tenantId}}

\* ids of the rows WHERE id = $1 AND tenant_id = $2
ThemeIdsMatching(id, tenantId) == ThemeIdsOfTenant(tenantId) \cap {id}

LockedByOther(q, ids) == \E o \in TReqs \ {q} : ids \cap DOMAIN tpending[o] # {}

\* the rows of themes after writing is_active = writes[id] into the rows in
\* DOMAIN writes
WriteActive(writes) ==
  {IF t.id \in DOMAIN writes THEN [t EXCEPT !.is_active = writes[t.id]] ELSE t : t \in themes}

\* POST /api/signup: tenant row and createDefaultTheme in one transaction,
\* which commits, or rolls back when a statement of it fails
Signup(tenantId, commits) ==
  /\ tenantId \notin tenants
  /\ themeSeq < MaxThemes
  /\ themeSeq' = themeSeq + 1
  /\ IF commits
     THEN /\ tenants' = tenants \cup {tenantId}
          /\ themes' = themes \cup {[id |-> themeSeq + 1, tenant_id |-> tenantId,
                                       is_active |-> TRUE]}
     ELSE UNCHANGED <<tenants, themes>>
  /\ UNCHANGED <<treq, tpending, tstarted>>
  /\ UNCHANGED notThemeVars

\* POST /api/themes: INSERT INTO themes (tenant_id, name, settings); is_active
\* takes its DEFAULT false
CreateTheme(tenantId) ==
  /\ tenantId \in tenants
  /\ themeSeq < MaxThemes
  /\ themeSeq' = themeSeq + 1
  /\ themes' = themes \cup {[id |-> themeSeq + 1, tenant_id |-> tenantId, is_active |-> FALSE]}
  /\ UNCHANGED <<tenants, treq, tpending, tstarted>>
  /\ UNCHANGED notThemeVars

\* DELETE FROM themes WHERE id = $1 AND tenant_id = $2
DeleteTheme(id, tenantId) ==
  /\ tenantId \in tenants
  /\ ThemeIdsMatching(id, tenantId) # {}
  /\ ~ \E o \in TReqs : id \in DOMAIN tpending[o]
  /\ themes' = {t \in themes : t.id # id}
  /\ UNCHANGED <<tenants, themeSeq, treq, tpending, tstarted>>
  /\ UNCHANGED notThemeVars

TRespond(q, status) == treq' = [treq EXCEPT ![q].pc = "done", ![q].status = status]

\* ---- PUT /api/themes/:id ----
\* the request passed authMiddleware; is_active of the body is <<TRUE>>,
\* <<FALSE>>, or << >> when the body has none
ThemePutStart(q, id, tenantId, isActive) ==
  /\ treq[q].pc \in {"idle", "done"}
  /\ tenantId \in tenants
  /\ tstarted < MaxThemeReqs
  /\ tstarted' = tstarted + 1
  /\ treq' = [treq EXCEPT ![q] =
       [IdleTReq EXCEPT !.pc = IF isActive = <<TRUE>> THEN "put_deactivate" ELSE "put_update",
                        !.kind = "put", !.id = id, !.tenantId = tenantId,
                        !.is_active = isActive]]
  /\ UNCHANGED <<tenants, themes, themeSeq, tpending>>
  /\ UNCHANGED notThemeVars

\* if (is_active) UPDATE themes SET is_active = false WHERE tenant_id = $1
ThemePutDeactivate(q) ==
  /\ treq[q].pc = "put_deactivate"
  /\ LET ids == ThemeIdsOfTenant(treq[q].tenantId)
     IN /\ ~ LockedByOther(q, ids)
        /\ themes' = WriteActive([i \in ids |-> FALSE])
  /\ treq' = [treq EXCEPT ![q].pc = "put_update"]
  /\ UNCHANGED <<tenants, themeSeq, tpending, tstarted>>
  /\ UNCHANGED notThemeVars

\* UPDATE themes SET ..., is_active = COALESCE($3, is_active) WHERE id = $4 AND
\* tenant_id = $5 RETURNING *; no row: 404
ThemePutUpdate(q) ==
  /\ treq[q].pc = "put_update"
  /\ LET ids == ThemeIdsMatching(treq[q].id, treq[q].tenantId)
     IN /\ ~ LockedByOther(q, ids)
        /\ IF ids = {}
           THEN /\ TRespond(q, 404)
                /\ UNCHANGED themes
           ELSE /\ themes' = IF treq[q].is_active = << >> THEN themes
                             ELSE WriteActive([i \in ids |-> treq[q].is_active[1]])
                /\ TRespond(q, 200)
  /\ UNCHANGED <<tenants, themeSeq, tpending, tstarted>>
  /\ UNCHANGED notThemeVars

\* the awaited statement throws: catch, 500 'Failed to update theme'
ThemePutStoreFailure(q) ==
  /\ treq[q].pc \in {"put_deactivate", "put_update"}
  /\ TRespond(q, 500)
  /\ UNCHANGED <<tenants, themes, themeSeq, tpending, tstarted>>
  /\ UNCHANGED notThemeVars

\* ---- PATCH /api/themes/:id/activate ----
\* db.connect(); BEGIN
PatchBegin(q, id, tenantId) ==
  /\ treq[q].pc \in {"idle", "done"}
  /\ tenantId \in tenants
  /\ tstarted < MaxThemeReqs
  /\ tstarted' = tstarted + 1
  /\ treq' = [treq EXCEPT ![q] =
       [IdleTReq EXCEPT !.pc = "patch_deactivate", !.kind = "patch", !.id = id,
                        !.tenantId = tenantId]]
  /\ UNCHANGED <<tenants, themes, themeSeq, tpending>>
  /\ UNCHANGED notThemeVars

\* UPDATE themes SET is_active = false WHERE tenant_id = $1
PatchDeactivate(q) ==
  /\ treq[q].pc = "patch_deactivate"
  /\ LET ids == ThemeIdsOfTenant(treq[q].tenantId)
     IN /\ ~ LockedByOther(q, ids)
        /\ tpending' = [tpending EXCEPT ![q] = [i \in ids |-> FALSE]]
  /\ treq' = [treq EXCEPT ![q].pc = "patch_activate"]
  /\ UNCHANGED <<tenants, themes, themeSeq, tstarted>>
  /\ UNCHANGED notThemeVars

\* UPDATE themes SET is_active = true WHERE id = $1 AND tenant_id = $2
PatchActivate(q) ==
  /\ treq[q].pc = "patch_activate"
  /\ LET ids == ThemeIdsMatching(treq[q].id, treq[q].tenantId)
         old == tpending[q]
     IN /\ ~ LockedByOther(q, ids)
        /\ tpending' = [tpending EXCEPT ![q] =
             [i \in DOMAIN old \cup ids |-> IF i \in ids THEN TRUE ELSE old[i]]]
  /\ treq' = [treq EXCEPT ![q].pc = "patch_commit"]
  /\ UNCHANGED <<tenants, themes, themeSeq, tstarted>>
  /\ UNCHANGED notThemeVars

\* COMMIT; res.json({ success: true }); finally client.release()
PatchCommit(q) ==
  /\ treq[q].pc = "patch_commit"
  /\ themes' = WriteActive(tpending[q])
  /\ tpending' = [tpending EXCEPT ![q] = NoWrites]
  /\ TRespond(q, 200)
  /\ UNCHANGED <<tenants, themeSeq, tstarted>>
  /\ UNCHANGED notThemeVars

\* a statement of the transaction throws: ROLLBACK, 500, client.release()
PatchStoreFailure(q) ==
  /\ treq[q].pc \in {"patch_deactivate", "patch_activate", "patch_commit"}
  /\ tpending' = [tpending EXCEPT ![q] = NoWrites]
  /\ TRespond(q, 500)
  /\ UNCHANGED <<tenants, themes, themeSeq, tstarted>>
  /\ UNCHANGED notThemeVars

\* the page tables are not touched by the theme routes
IdlePages ==
  /\ pages = {}
  /\ page_versions = {}
  /\ pageSeq = 0
  /\ versionSeq = 0
  /\ req = [r \in {} |-> 0]
  /\ puts = 0

InitThemes ==
  /\ tenants = {}
  /\ themes = {}
  /\ themeSeq = 0
  /\ treq = [q \in TReqs |-> IdleTReq]
  /\ tpending = [q \in TReqs |-> NoWrites]
  /\ tstarted = 0
  /\ IdlePages
  /\ IdleRender
  /\ IdleEscape
  /\ IdleCheckout
  /\ IdleRate
  /\ IdleStore
  /\ IdleAuth

NextThemes ==
  \/ \E t \in Tenants, c \in BOOLEAN : Signup(t, c)
  \/ \E t \in Tenants : CreateTheme(t)
  \/ \E id \in ThemeIds, t \in Tenants : DeleteTheme(id, t)
  \/ \E q \in TReqs, id \in ThemeIds, t \in Tenants, a \in {<<TRUE>>, <<FALSE>>, << >>} :
        ThemePutStart(q, id, t, a)
  \/ \E q \in TReqs : ThemePutDeactivate(q)
  \/ \E q \in TReqs : ThemePutUpdate(q)
  \/ \E q \in TReqs : ThemePutStoreFailure(q)
  \/ \E q \in TReqs, id \in ThemeIds, t \in Tenants : PatchBegin(q, id, t)
  \/ \E q \in TReqs : PatchDeactivate(q)
  \/ \E q \in TReqs : PatchActivate(q)
  \/ \E q \in TReqs : PatchCommit(q)
  \/ \E q \in TReqs : PatchStoreFailure(q)

SpecThemes == InitThemes /\ [][NextThemes]_vars

\* ------------------------------------------------------------------------
\* JSON values, strings as sequences of characters
\* ------------------------------------------------------------------------
Str(chars) == [k |-> "str", s |-> chars]
Num(n) == [k |-> "num", n |-> n]
Bool(b) == [k |-> "bool", b |-> b]
Null == [k |-> "null"]
Undefined == [k |-> "undef"]
\* an array of values, and an object as its entries <<key, value>> in
\* insertion order
Arr(items) == [k |-> "arr", items |-> items]
Obj(entries) == [k |-> "obj", entries |-> entries]

RECURSIVE Concat(_)
\* the concatenation of a sequence of strings
Concat(parts) == IF parts = << >> THEN << >> ELSE Head(parts) \o Concat(Tail(parts))

DigitChars == <<"0", "1", "2", "3", "4", "5", "6", "7", "8", "9">>

RECURSIVE Digits(_)
\* String(n) for an integer n >= 0
Digits(n) == IF n < 10 THEN <<DigitChars[n + 1]>>
             ELSE Digits(n \div 10) \o <<DigitChars[(n % 10) + 1]>>

RECURSIVE JoinWith(_, _)
JoinWith(parts, sep) ==
  IF parts = << >> THEN << >>
  ELSE IF Len(parts) = 1 THEN parts[1]
  ELSE parts[1] \o sep \o JoinWith(Tail(parts), sep)

RECURSIVE JsString(_)
\* String(value), '' + value
JsString(value) ==
  CASE value.k = "str" -> value.s
    [] value.k = "num" -> Digits(value.n)
    [] value.k = "bool" -> IF value.b THEN <<"t", "r", "u", "e">> ELSE <<"f", "a", "l", "s", "e">>
    [] value.k = "null" -> <<"n", "u", "l", "l">>
    [] value.k = "undef" -> <<"u", "n", "d", "e", "f", "i", "n", "e", "d">>
    [] value.k = "arr" ->
         JoinWith([i \in 1..Len(value.items) |->
                     IF value.items[i].k \in {"null", "undef"} THEN << >>
                     ELSE JsString(value.items[i])], <<",">>)
    [] value.k = "obj" -> <<"[", "o", "b", "j", "e", "c", "t", " ", "O", "b", "j", "e", "c", "t", "]">>

\* Object.entries(config): of an object its entries, of an array the pairs
\* <<index as string, element>>
ObjectEntries(value) ==
  IF value.k = "arr" THEN [i \in 1..Len(value.items) |-> <<Digits(i - 1), value.items[i]>>]
  ELSE value.entries

\* typeof value === 'object' (true of null, arrays and objects)
TypeofObject(value) == value.k \in {"obj", "arr", "null"}

\* obj[key] of an object value: the value of the entry with that key
GetProperty(obj, key) ==
  IF \E i \in 1..Len(obj.entries) : obj.entries[i][1] = key
  THEN obj.entries[CHOOSE i \in 1..Len(obj.entries) : obj.entries[i][1] = key][2]
  ELSE Undefined

\* obj[key] = value: replaces the entry in place, or appends one
SetProperty(obj, key, value) ==
  IF \E i \in 1..Len(obj.entries) : obj.entries[i][1] = key
  THEN Obj([i \in 1..Len(obj.entries) |->
              IF obj.entries[i][1] = key THEN <<key, value>> ELSE obj.entries[i]])
  ELSE Obj(Append(obj.entries, <<key, value>>))

RECURSIVE JsonStringify(_)
\* JSON.stringify(value) of a defined value (an undefined entry of an object
\* is left out, an undefined element of an array is null)
JsonStringify(value) ==
  CASE value.k = "str" ->
         <<"\"">> \o Concat([i \in 1..Len(value.s) |->
                     IF value.s[i] \in {"\"", "\\"} THEN <<"\\", value.s[i]>>
                     ELSE <<value.s[i]>>]) \o <<"\"">>
    [] value.k \in {"num", "bool", "null"} -> JsString(value)
    [] value.k = "undef" -> <<"n", "u", "l", "l">>
    [] value.k = "arr" ->
         <<"[">> \o JoinWith([i \in 1..Len(value.items) |-> JsonStringify(value.items[i])],
                             <<",">>)
                \o <<"]">>
    [] value.k = "obj" ->
         LET kept == SelectSeq(value.entries, LAMBDA e : e[2].k # "undef")
         IN <<"{">> \o JoinWith([i \in 1..Len(kept) |->
                         JsonStringify(Str(kept[i][1])) \o <<":">> \o JsonStringify(kept[i][2])],
                       <<",">>) \o <<"}">>

\* ------------------------------------------------------------------------
\* escapeHtml, escapeBlockConfig
\* ------------------------------------------------------------------------
\* (mutant: the map has no entry for the apostrophe)
EscapeCharNoApostrophe(c) ==
  CASE c = "&" -> <<"&", "a", "m", "p", ";">>
    [] c = "<" -> <<"&", "l", "t", ";">>
    [] c = ">" -> <<"&", "g", "t", ";">>
    [] c = "\"" -> <<"&", "q", "u", "o", "t", ";">>
    [] OTHER -> <<c>>

\* map[m] for a character matched by /[&<>"']/g, the character otherwise
EscapeChar(c) ==
  CASE c = "&" -> <<"&", "a", "m", "p", ";">>
    [] c = "<" -> <<"&", "l", "t", ";">>
    [] c = ">" -> <<"&", "g", "t", ";">>
    [] c = "\"" -> <<"&", "q", "u", "o", "t", ";">>
    [] c = "'" -> <<"&", "#", "0", "3", "9", ";">>
    [] OTHER -> <<c>>

\* text.replace(/[&<>"']/g, m => map[m])
EscapeHtml(text) == Concat([i \in 1..Len(text) |-> EscapeChar(text[i])])

KeyContent == <<"c", "o", "n", "t", "e", "n", "t">>
KeyYear == <<"y", "e", "a", "r">>
KeyJsonConfig == <<"j", "s", "o", "n", "C", "o", "n", "f", "i", "g">>

RECURSIVE EscapeInherited(_, _)
\* (mutant: below a key content nothing is escaped)
EscapeInherited(value, exempt) ==
  CASE value.k = "str" -> IF exempt THEN value ELSE Str(EscapeHtml(value.s))
    [] value.k = "arr" ->
         Arr([i \in 1..Len(value.items) |-> EscapeInherited(value.items[i], exempt)])
    [] value.k = "obj" ->
         Obj([i \in 1..Len(value.entries) |->
                <<value.entries[i][1],
                  EscapeInherited(value.entries[i][2], exempt \/ value.entries[i][1] = KeyContent)>>])
    [] OTHER -> value

EscapeBlockConfigInherited(config) == EscapeInherited(config, FALSE)

RECURSIVE EscapeBlockConfig(_)
\* escapeBlockConfig(config): a non-object or null is returned as it is;
\* otherwise a new plain object with one entry per entry of config
EscapeBlockConfig(config) ==
  IF ~ TypeofObject(config) \/ config.k = "null" THEN config
  ELSE LET entries == ObjectEntries(config)
           Escaped(key, value) ==
             IF value.k = "str"
             THEN IF key = KeyContent THEN value ELSE Str(EscapeHtml(value.s))
             ELSE IF value.k = "arr"
             THEN Arr([i \in 1..Len(value.items) |->
                        IF TypeofObject(value.items[i]) THEN EscapeBlockConfig(value.items[i])
                        ELSE Str(EscapeHtml(JsString(value.items[i])))])
             ELSE IF TypeofObject(value) THEN EscapeBlockConfig(value)
             ELSE value
       IN Obj([i \in 1..Len(entries) |-> <<entries[i][1], Escaped(entries[i][1], entries[i][2])>>])

\* ------------------------------------------------------------------------
\* Handlebars: a compiled template is its sequence of tokens, a token being
\* one character of text, a mustache {{key}} / {{this.key}} / {{../key}}, or
\* a block {{#if key}}..{{else}}..{{/if}} / {{#each key}}..{{/each}}
\* ------------------------------------------------------------------------
\* {{key}} and {{this.key}}
Mustache(key) == <<[t |-> "var", key |-> key]>>

\* {{../key}}
ParentMustache(key) == <<[t |-> "parent", key |-> key]>>

\* {{#if key}}fn{{else}}inverse{{/if}} (inverse is empty without {{else}})
IfBlock(key, fn, inverse) == <<[t |-> "if", key |-> key, fn |-> fn, inverse |-> inverse]>>

\* {{#each key}}fn{{/each}}
EachBlock(key, fn) == <<[t |-> "each", key |-> key, fn |-> fn]>>

Text(chars) == [i \in 1..Len(chars) |-> [t |-> "text", c |-> chars[i]]]

IsMustache(token) == token.t = "var"

\* Handlebars.Utils.escapeExpression on one character (the backquote, which
\* it escapes too, is in no input here)
HbsEscapeChar(c) ==
  CASE c = "&" -> <<"&", "a", "m", "p", ";">>
    [] c = "<" -> <<"&", "l", "t", ";">>
    [] c = ">" -> <<"&", "g", "t", ";">>
    [] c = "\"" -> <<"&", "q", "u", "o", "t", ";">>
    [] c = "'" -> <<"&", "#", "x", "2", "7", ";">>
    [] c = "=" -> <<"&", "#", "x", "3", "D", ";">>
    [] OTHER -> <<c>>

\* what {{key}} appends: nothing for null and undefined, the value's string
\* otherwise, HTML-escaped by Handlebars
HbsExpression(value) ==
  IF value.k \in {"null", "undef"} THEN << >>
  ELSE LET text == JsString(value)
       IN Concat([i \in 1..Len(text) |-> HbsEscapeChar(text[i])])

\* (mutant: a missing property reads as an empty array)
HbsLookupEmptyDefault(context, key) ==
  IF context.k = "obj"
  THEN IF GetProperty(context, key) = Undefined THEN Arr(<< >>) ELSE GetProperty(context, key)
  ELSE Undefined

\* the property key of a context: of an object its entry, of any other value
\* (a string, a number, null) undefined for the keys templates use here
HbsLookup(context, key) ==
  IF context.k = "obj" THEN GetProperty(context, key) ELSE Undefined

\* if (conditional) of the registered 'if' helper: JavaScript truthiness
Truthy(value) ==
  CASE value.k = "str" -> value.s # << >>
    [] value.k = "num" -> value.n # 0
    [] value.k = "bool" -> value.b
    [] value.k \in {"null", "undef"} -> FALSE
    [] OTHER -> TRUE

\* (mutant: the loop runs from the last element to the first)
EachElementsReversed(context) ==
  CASE context.k = "arr" ->
         [i \in 1..Len(context.items) |-> context.items[Len(context.items) + 1 - i]]
    [] context.k = "str" -> [i \in 1..Len(context.s) |-> Str(<<context.s[i]>>)]
    [] OTHER -> << >>

\* context[0], ..., context[context.length - 1] of the registered 'each'
\* helper: the elements of an array, the characters of a string, nothing for
\* a value without length (a number, a boolean, an object with no such entry)
EachElements(context) ==
  CASE context.k = "arr" -> context.items
    [] context.k = "str" -> [i \in 1..Len(context.s) |-> Str(<<context.s[i]>>)]
    [] OTHER -> << >>

RECURSIVE HbsProgram(_, _)
\* a program of the compiled template run on depths, the contexts from the
\* current one outwards: [threw, out]. options.fn(this) of 'if' keeps the
\* depths, options.fn(context[i]) of 'each' puts the element in front;
\* context.length of null or undefined throws. A block's result is appended
\* as it is, a mustache's is escaped.
HbsProgram(tokens, depths) ==
  LET context == depths[1]
      Part(token) ==
        CASE token.t = "text" -> [threw |-> FALSE, out |-> <<token.c>>]
          [] token.t = "var" ->
               [threw |-> FALSE, out |-> HbsExpression(HbsLookup(context, token.key))]
          [] token.t = "parent" ->
               [threw |-> FALSE,
                out |-> HbsExpression(IF Len(depths) > 1 THEN HbsLookup(depths[2], token.key)
                                      ELSE Undefined)]
          [] token.t = "if" ->
               IF Truthy(HbsLookup(context, token.key)) THEN HbsProgram(token.fn, depths)
               ELSE HbsProgram(token.inverse, depths)
          [] token.t = "each" ->
               LET items == HbsLookup(context, token.key)
               IN IF items.k \in {"null", "undef"} THEN [threw |-> TRUE, out |-> << >>]
                  ELSE LET elements == EachElements(items)
                           runs == [i \in 1..Len(elements) |->
                                      HbsProgram(token.fn, <<elements[i]>> \o depths)]
                       IN [threw |-> \E i \in 1..Len(runs) : runs[i].threw,
                           out |-> Concat([i \in 1..Len(runs) |-> runs[i].out])]
      parts == [i \in 1..Len(tokens) |-> Part(tokens[i])]
  IN [threw |-> \E i \in 1..Len(parts) : parts[i].threw,
      out |-> Concat([i \in 1..Len(parts) |-> parts[i].out])]

\* templates[type](safeConfig): [threw, out]
HbsRender(tokens, context) == HbsProgram(tokens, <<context>>)

\* ------------------------------------------------------------------------
\* renderBlocks
\* ------------------------------------------------------------------------
\* new Date().getFullYear()
CurrentYear == 2026

\* SELECT name, template FROM block_types WHERE is_enabled = true
EnabledBlockTypes == {bt \in block_types : bt.is_enabled}

\* names templates[type] finds on Object.prototype, templates being {}
TypeConstructor == <<"c", "o", "n", "s", "t", "r", "u", "c", "t", "o", "r">>
TypeProto == <<"_", "_", "p", "r", "o", "t", "o", "_", "_">>
ObjectPrototypeKeys == {TypeConstructor, TypeProto}

\* templates[type]: the compiled template of an enabled type, a property
\* inherited from Object.prototype, or undefined
TemplateLookupIn(rows, type) ==
  IF \E bt \in rows : bt.name = type
  THEN [found |-> "template", tokens |-> (CHOOSE bt \in rows : bt.name = type).template]
  ELSE IF type \in ObjectPrototypeKeys THEN [found |-> "inherited", tokens |-> << >>]
  ELSE [found |-> "none", tokens |-> << >>]

\* the same with the rows the SELECT returns now
TemplateLookup(type) == TemplateLookupIn(EnabledBlockTypes, type)

\* (mutant: the unknown type leaves a marker comment)
UnknownBlockMarker(type) == <<"<", "!", "-", "-", " ", "U", "n", "k", "n", "o", "w", "n", " ", "b", "l", "o", "c", "k", " ", "t", "y", "p", "e", ":", " ">> \o type \o <<" ", "-", "-", ">">>

\* if (!templates[type]) { console.warn(...); continue; }
UnknownBlockFragment(type) == << >>

\* (mutant: the catch block adds nothing to html)
ErrorMarkerDropped(type) == << >>

\* html += `<!-- Error rendering ${type} block -->`
ErrorMarker(type) == <<"<", "!", "-", "-", " ", "E", "r", "r", "o", "r", " ", "r", "e", "n", "d", "e", "r", "i", "n", "g", " ">> \o type \o <<" ", "b", "l", "o", "c", "k", " ", "-", "-", ">">>

\* (mutant: jsonConfig is the serialization of safeConfig)
BlockScopeOfEscaped(config) ==
  SetProperty(SetProperty(EscapeBlockConfig(config), KeyYear, Num(CurrentYear)),
              KeyJsonConfig, Str(JsonStringify(EscapeBlockConfig(config))))

\* the scope the template runs on: safeConfig with year and jsonConfig set
BlockScope(config) ==
  SetProperty(SetProperty(EscapeBlockConfig(config), KeyYear, Num(CurrentYear)),
              KeyJsonConfig, Str(JsonStringify(config)))

\* the body of the try block for one block, and its catch: what is added to
\* html. Setting year on a safeConfig that is no object throws (the file is a
\* module, so strict); Object(safeConfig) is the object itself, which html +=
\* turns into [object Object]; calling Object.prototype throws.
BlockFragmentIn(lookup, block) ==
  IF lookup.found = "none" THEN UnknownBlockFragment(block.type)
  ELSE IF EscapeBlockConfig(block.config).k # "obj" THEN ErrorMarker(block.type)
  ELSE IF lookup.found = "template"
  THEN LET run == HbsRender(lookup.tokens, BlockScope(block.config))
       IN IF run.threw THEN ErrorMarker(block.type) ELSE run.out
  ELSE IF block.type = TypeConstructor THEN <<"[", "o", "b", "j", "e", "c", "t", " ", "O", "b", "j", "e", "c", "t", "]">>
  ELSE ErrorMarker(block.type)

\* the same with templates[type] looked up in the rows the SELECT returns now
BlockFragment(block) == BlockFragmentIn(TemplateLookup(block.type), block)

\* (mutant: the loop ends at the first block of an unknown type)
RenderBlocksStopAtUnknown(body) ==
  IF ~ body.isArray THEN [threw |-> FALSE, html |-> << >>]
  ELSE IF \E i \in 1..Len(body.blocks) : body.blocks[i].isNull
  THEN [threw |-> TRUE, html |-> << >>]
  ELSE LET Stopped(i) == \E j \in 1..i : TemplateLookup(body.blocks[j].type).found = "none"
       IN [threw |-> FALSE,
           html |-> Concat([i \in 1..Len(body.blocks) |->
                              IF Stopped(i) THEN << >> ELSE BlockFragment(body.blocks[i])])]

\* (mutant: safeConfig of the first block is carried to the blocks after it)
RenderBlocksCarriedConfig(body) ==
  IF ~ body.isArray THEN [threw |-> FALSE, html |-> << >>]
  ELSE IF \E i \in 1..Len(body.blocks) : body.blocks[i].isNull
  THEN [threw |-> TRUE, html |-> << >>]
  ELSE [threw |-> FALSE,
        html |-> Concat([i \in 1..Len(body.blocks) |->
                           BlockFragment([body.blocks[i] EXCEPT !.config = body.blocks[1].config])])]

\* renderBlocks(blocks, db): [threw, html]; const { type, config } = block
\* throws out of the loop when block is null
RenderBlocks(body) ==
  IF ~ body.isArray THEN [threw |-> FALSE, html |-> << >>]
  ELSE IF \E i \in 1..Len(body.blocks) : body.blocks[i].isNull
  THEN [threw |-> TRUE, html |-> << >>]
  ELSE [threw |-> FALSE,
        html |-> Concat([i \in 1..Len(body.blocks) |-> BlockFragment(body.blocks[i])])]

\* POST /api/pages/render
RenderRequest ==
  /\ rpc = "request"
  /\ rpc' = "done"
  /\ rres' = IF ~ rbody.isArray THEN [status |-> 400, html |-> << >>]
             ELSE LET out == RenderBlocks(rbody)
                  IN IF out.threw THEN [status |-> 500, html |-> << >>]
                     ELSE [status |-> 200, html |-> out.html]
  /\ UNCHANGED <<block_types, rbody, rtemplates>>
  /\ UNCHANGED notRenderVars

\* ---- inputs ----
TypeHero == <<"h", "e", "r", "o">>
TypeText == <<"t", "e", "x", "t">>
TypeMissing == <<"c", "a", "r", "o", "u", "s", "e", "l">>
KeyTitle == <<"t", "i", "t", "l", "e">>
KeySubtitle == <<"s", "u", "b", "t", "i", "t", "l", "e">>

\* <h1>{{title}}</h1>
HeroTemplate == Text(<<"<", "h", "1", ">">>) \o Mustache(KeyTitle) \o Text(<<"<", "/", "h", "1", ">">>)
\* <div>{{content}}</div>{{year}}
TextTemplate ==
  Text(<<"<", "d", "i", "v", ">">>) \o Mustache(KeyContent) \o Text(<<"<", "/", "d", "i", "v", ">">>) \o Mustache(KeyYear)

BlockTypeTables ==
  {{[name |-> TypeHero, template |-> HeroTemplate, is_enabled |-> h],
    [name |-> TypeText, template |-> TextTemplate, is_enabled |-> t]} : h, t \in BOOLEAN}

SampleStrings ==
  {<< >>, <<"a">>, <<"&">>, <<"<">>, <<">">>, <<"\"">>, <<"'">>,
   <<"<", "s", "c", "r", "i", "p", "t", ">", "a", "l", "e", "r", "t", "(", "1", ")", "<", "/", "s", "c", "r", "i", "p", "t", ">">>,
   <<"&", "a", "m", "p", ";">>,
   <<"a", "&", "b", "'", "c">>}

Block(type, config) == [isNull |-> FALSE, type |-> type, config |-> config]
NullBlock == [isNull |-> TRUE, type |-> << >>, config |-> Undefined]

SampleBlocks ==
  {Block(TypeHero, Obj(<<<<KeyTitle, Str(s)>>, <<KeySubtitle, Str(<<"W", "e", "l", "c", "o", "m", "e">>)>>>>)) : s \in SampleStrings}
  \cup {Block(TypeText, Obj(<<<<KeyContent, Str(s)>>>>)) : s \in SampleStrings}
  \cup {Block(TypeMissing, Obj(<<<<KeyTitle, Str(<<"a">>)>>>>)),
        Block(TypeConstructor, Obj(<< >>)),
        Block(TypeProto, Obj(<< >>)),
        Block(TypeHero, Null),
        Block(TypeHero, Num(7)),
        Block(TypeHero, Arr(<<Str(<<"<">>), Num(1)>>)),
        NullBlock}

BlockLists == UNION {[1..n -> SampleBlocks] : n \in 0..MaxBlocks}

InitRender ==
  /\ block_types \in BlockTypeTables
  /\ rbody \in {[isArray |-> TRUE, blocks |-> bl] : bl \in BlockLists}
               \cup {[isArray |-> FALSE, blocks |-> << >>]}
  /\ rpc = "request"
  /\ rtemplates = {}
  /\ rres = [status |-> 0, html |-> << >>]
  /\ IdlePages
  /\ IdleThemes
  /\ IdleEscape
  /\ IdleCheckout
  /\ IdleRate
  /\ IdleStore
  /\ IdleAuth

NextRender == RenderRequest

SpecRender == InitRender /\ [][NextRender]_vars

\* ------------------------------------------------------------------------
\* A render with table block_types written to meanwhile: the SELECT of
\* renderBlocks is awaited, the loop after it runs without an await
\* ------------------------------------------------------------------------
ReloadBlocks ==
  {Block(TypeHero, Obj(<<<<KeyTitle, Str(<<"a">>)>>>>)),
   Block(TypeText, Obj(<<<<KeyContent, Str(<<"a">>)>>>>)),
   Block(TypeMissing, Obj(<< >>))}

InitReload ==
  /\ block_types \in BlockTypeTables
  /\ rbody \in {[isArray |-> TRUE, blocks |-> list] :
                  list \in UNION {[1..n -> ReloadBlocks] : n \in 1..MaxBlocks}}
  /\ rpc = "request"
  /\ rtemplates = {}
  /\ rres = [status |-> 0, html |-> << >>]
  /\ IdlePages
  /\ IdleThemes
  /\ IdleEscape
  /\ IdleCheckout
  /\ IdleRate
  /\ IdleStore
  /\ IdleAuth

\* a row of block_types is enabled, disabled, or gets another template
\* (UPDATE block_types ... WHERE name = $1, by whoever administers the table)
ChangeBlockType(name, enabled, template) ==
  /\ block_types' = {IF bt.name = name
                     THEN [bt EXCEPT !.is_enabled = enabled, !.template = template]
                     ELSE bt : bt \in block_types}
  /\ block_types' # block_types
  /\ UNCHANGED <<rbody, rpc, rtemplates, rres>>
  /\ UNCHANGED notRenderVars

\* const blockTypesResult = await db.query('SELECT name, template FROM
\* block_types WHERE is_enabled = true')
RenderQuery ==
  /\ rpc = "request"
  /\ rpc' = "loaded"
  /\ rtemplates' = EnabledBlockTypes
  /\ UNCHANGED <<block_types, rbody, rres>>
  /\ UNCHANGED notRenderVars

\* (mutant: every block after the first is looked up in the table as it is
\* when the loop runs)
TemplatesOfBlockFresh(i) == IF i = 1 THEN rtemplates ELSE EnabledBlockTypes

\* the rows behind templates when block i is looked up: templates is filled
\* once, before the loop
TemplatesOfBlock(i) == rtemplates

\* the loop over blocks, return html, res.json({ html })
RenderLoop ==
  /\ rpc = "loaded"
  /\ rpc' = "done"
  /\ rres' = IF \E i \in 1..Len(rbody.blocks) : rbody.blocks[i].isNull
             THEN [status |-> 500, html |-> << >>]
             ELSE [status |-> 200,
                   html |-> Concat([i \in 1..Len(rbody.blocks) |->
                              BlockFragmentIn(TemplateLookupIn(TemplatesOfBlock(i),
                                                               rbody.blocks[i].type),
                                              rbody.blocks[i])])]
  /\ UNCHANGED <<block_types, rbody, rtemplates>>
  /\ UNCHANGED notRenderVars

NextReload ==
  \/ \E name \in {TypeHero, TypeText}, enabled \in BOOLEAN,
        template \in {HeroTemplate, TextTemplate} : ChangeBlockType(name, enabled, template)
  \/ RenderQuery
  \/ RenderLoop

SpecReload == InitReload /\ [][NextReload]_vars

\* ------------------------------------------------------------------------
\* Rendering templates that use the registered helpers
\* ------------------------------------------------------------------------
TypeNotice == <<"n", "o", "t", "i", "c", "e">>
TypeNoticeElse == <<"n", "o", "t", "i", "c", "e", "-", "e", "l", "s", "e">>
TypeList == <<"l", "i", "s", "t">>
KeyX == <<"x">>
KeyItems == <<"i", "t", "e", "m", "s">>
KeyName == <<"n", "a", "m", "e">>

\* {{#if x}}A{{/if}}
NoticeTemplate == IfBlock(KeyX, Text(<<"A">>), << >>)
\* {{#if x}}A{{else}}B{{/if}}
NoticeElseTemplate == IfBlock(KeyX, Text(<<"A">>), Text(<<"B">>))
\* {{#each items}}{{this.name}}-{{../title}}{{/each}}
ListTemplate == EachBlock(KeyItems, Mustache(KeyName) \o Text(<<"-">>) \o ParentMustache(KeyTitle))

TypeStamp == <<"s", "t", "a", "m", "p">>
\* {{year}}:{{jsonConfig}}
StampTemplate == Mustache(KeyYear) \o Text(<<":">>) \o Mustache(KeyJsonConfig)

\* configs with and without keys year and jsonConfig of their own, and an array
StampConfigs ==
  {Obj(<< >>),
   Obj(<<<<KeyTitle, Str(<<"<">>)>>>>),
   Obj(<<<<KeyYear, Str(<<"1", "9", "9", "9">>)>>>>),
   Obj(<<<<KeyJsonConfig, Str(<<"x">>)>>, <<KeyTitle, Str(<<"<">>)>>>>),
   Arr(<<Str(<<"<">>)>>)}

HelperBlockTypes ==
  {[name |-> TypeStamp, template |-> StampTemplate, is_enabled |-> TRUE],
   [name |-> TypeNotice, template |-> NoticeTemplate, is_enabled |-> TRUE],
   [name |-> TypeNoticeElse, template |-> NoticeElseTemplate, is_enabled |-> TRUE],
   [name |-> TypeList, template |-> ListTemplate, is_enabled |-> TRUE]}

\* configs {} and {x: value}
ConditionConfigs ==
  {Obj(<< >>)} \cup
  {Obj(<<<<KeyX, v>>>>) :
     v \in {Str(<< >>), Bool(FALSE), Num(0), Arr(<< >>), Str(<<"y", "e", "s">>), Num(1),
            Bool(TRUE), Obj(<< >>), Arr(<<Num(0)>>)}}

Item(name) == Obj(<<<<KeyName, Str(name)>>>>)

\* values of items: arrays of objects, an array of a string, a string, a number
ItemsValues ==
  {Arr(<< >>), Arr(<<Item(<<"p", "1">>)>>),
   Arr(<<Item(<<"p", "1">>), Item(<<"p", "2">>)>>),
   Arr(<<Item(<<"p", "2">>), Item(<<"p", "1">>)>>),
   Arr(<<Item(<<"<">>), Item(<<"p", "1">>)>>),
   Arr(<<Str(<<"a">>)>>), Str(<<"a", "b">>), Num(7)}

TitleShop == <<"S", "h", "o", "p">>

\* configs {items?, title?}
ListConfigs ==
  LET titled(entries) == {Obj(entries), Obj(entries \o <<<<KeyTitle, Str(TitleShop)>>>>)}
  IN titled(<< >>) \cup UNION {titled(<<<<KeyItems, v>>>>) : v \in ItemsValues}

HelperBlocks ==
  {Block(type, config) : type \in {TypeNotice, TypeNoticeElse}, config \in ConditionConfigs}
  \cup {Block(TypeList, config) : config \in ListConfigs}
  \cup {Block(TypeList, Null), Block(TypeList, Undefined)}
  \cup {Block(TypeStamp, config) : config \in StampConfigs}

HelperBlockLists == UNION {[1..n -> HelperBlocks] : n \in 0..MaxHelperBlocks}

InitHelpers ==
  /\ block_types = HelperBlockTypes
  /\ rbody \in {[isArray |-> TRUE, blocks |-> list] : list \in HelperBlockLists}
  /\ rpc = "request"
  /\ rtemplates = {}
  /\ rres = [status |-> 0, html |-> << >>]
  /\ IdlePages
  /\ IdleThemes
  /\ IdleEscape
  /\ IdleCheckout
  /\ IdleRate
  /\ IdleStore
  /\ IdleAuth

NextHelpers == RenderRequest

SpecHelpers == InitHelpers /\ [][NextHelpers]_vars

\* ------------------------------------------------------------------------
\* escapeBlockConfig called on nested configs
\* ------------------------------------------------------------------------
EscapeKeys == {KeyContent, KeyTitle}
EscapeStrings == {<<"a">>, <<"<">>, <<"&">>, <<"'">>, <<"<", "b", ">">>}

RECURSIVE NestedValues(_)
\* strings, and objects of one entry and arrays of one element nested up to
\* depth deep
NestedValues(depth) ==
  IF depth = 0 THEN {Str(text) : text \in EscapeStrings}
  ELSE LET inner == NestedValues(depth - 1)
       IN inner \cup {Obj(<<<<key, value>>>>) : key \in EscapeKeys, value \in inner}
                \cup {Arr(<<value>>) : value \in inner}

NestedConfigs == {Obj(<<<<key, value>>>>) : key \in EscapeKeys, value \in NestedValues(MaxNesting)}

InitEscape ==
  /\ econfig \in NestedConfigs
  /\ escaped = Undefined
  /\ IdlePages
  /\ IdleThemes
  /\ IdleRender
  /\ IdleCheckout
  /\ IdleRate
  /\ IdleStore
  /\ IdleAuth

\* const safeConfig = escapeBlockConfig(config)
EscapeCall ==
  /\ escaped = Undefined
  /\ escaped' = EscapeBlockConfig(econfig)
  /\ UNCHANGED econfig
  /\ UNCHANGED notEscapeVars

NextEscape == EscapeCall

SpecEscape == InitEscape /\ [][NextEscape]_vars

\* ------------------------------------------------------------------------
\* Claims about rendering
\* ------------------------------------------------------------------------
\* sub occurs in text as a contiguous run of characters
Contains(text, sub) ==
  \E j \in 0..(Len(text) - Len(sub)) : SubSeq(text, j + 1, j + Len(sub)) = sub

Rendered == rpc = "done" /\ rres.status = 200

TypeEnabled(type) == \E bt \in block_types : bt.name = type /\ bt.is_enabled

HasString(block, key) ==
  /\ ~ block.isNull
  /\ block.config.k = "obj"
  /\ GetProperty(block.config, key).k = "str"

\* the entity the claim names for each of & < > " '
ClaimedEntity(c) ==
  CASE c = "&" -> <<"&", "a", "m", "p", ";">>
    [] c = "<" -> <<"&", "l", "t", ";">>
    [] c = ">" -> <<"&", "g", "t", ";">>
    [] c = "\"" -> <<"&", "q", "u", "o", "t", ";">>
    [] c = "'" -> <<"&", "#", "0", "3", "9", ";">>
    [] OTHER -> <<c>>

EscapedOnce(text) == Concat([i \in 1..Len(text) |-> ClaimedEntity(text[i])])

\* C8: a hero block's title appears in the output of <h1>{{title}}</h1> with
\* each of & < > " ' replaced exactly once by its entity.
C8_EscapedOnce ==
  Rendered =>
    \A i \in 1..Len(rbody.blocks) :
      LET block == rbody.blocks[i]
      IN (block.type = TypeHero /\ TypeEnabled(TypeHero) /\ HasString(block, KeyTitle))
           => Contains(rres.html,
                       <<"<", "h", "1", ">">> \o EscapedOnce(GetProperty(block.config, KeyTitle).s) \o <<"<", "/", "h", "1", ">">>)

\* C9: a text block's content appears in the output of <div>{{content}}</div>
\* character for character.
C9_ContentVerbatim ==
  Rendered =>
    \A i \in 1..Len(rbody.blocks) :
      LET block == rbody.blocks[i]
      IN (block.type = TypeText /\ TypeEnabled(TypeText) /\ HasString(block, KeyContent))
           => Contains(rres.html,
                       <<"<", "d", "i", "v", ">">> \o GetProperty(block.config, KeyContent).s \o <<"<", "/", "d", "i", "v", ">">>)

\* the list without its i-th element
RemoveAt(list, i) == SubSeq(list, 1, i - 1) \o SubSeq(list, i + 1, Len(list))

SingleBlock(block) == RenderBlocks([isArray |-> TRUE, blocks |-> <<block>>])

\* the outputs of rendering each block of the list alone, in order
FragmentsOf(list) == Concat([i \in 1..Len(list) |-> SingleBlock(list[i]).html])

\* C11: a block of a type that is not enabled leaves the fragments of the
\* other blocks as they are and in their order: the output starts with the
\* fragments of the blocks before it and ends with those of the blocks after.
C11_OtherBlocksUnchanged ==
  Rendered =>
    \A i \in 1..Len(rbody.blocks) :
      ~ TypeEnabled(rbody.blocks[i].type)
        => LET before == FragmentsOf(SubSeq(rbody.blocks, 1, i - 1))
               after == FragmentsOf(SubSeq(rbody.blocks, i + 1, Len(rbody.blocks)))
               n == Len(rres.html)
           IN /\ n >= Len(before) + Len(after)
              /\ SubSeq(rres.html, 1, Len(before)) = before
              /\ SubSeq(rres.html, n - Len(after) + 1, n) = after

\* a block of an absent type first, a hero block rendered after it
C11_Witness ==
  /\ Rendered
  /\ Len(rbody.blocks) = 2
  /\ rbody.blocks[1].type = TypeMissing
  /\ rbody.blocks[2].type = TypeHero
  /\ TypeEnabled(TypeHero)
  /\ Contains(rres.html, <<"<", "h", "1", ">">>)

\* C13: every array of blocks, malformed elements included, gets an HTML
\* string back.
C13_AlwaysSomeHtml == (rpc = "done" /\ rbody.isArray) => rres.status = 200

\* C14: rendering a list equals rendering each of its blocks alone and
\* concatenating the results in order; it fails exactly when one of them does.
C14_Composable ==
  (rpc = "done" /\ rbody.isArray) =>
    /\ rres.status = 200 <=> \A i \in 1..Len(rbody.blocks) : ~ SingleBlock(rbody.blocks[i]).threw
    /\ rres.status = 200 => rres.html = FragmentsOf(rbody.blocks)

\* two blocks with different configs, both rendered to something
C14_Witness ==
  /\ Rendered
  /\ Len(rbody.blocks) = 2
  /\ rbody.blocks[1].config # rbody.blocks[2].config
  /\ SingleBlock(rbody.blocks[1]).html # << >>
  /\ SingleBlock(rbody.blocks[2]).html # << >>
  /\ rbody.blocks[2].type = TypeText

\* the try block of this block throws: its config is no object to set year
\* on, or its template runs each over items that are missing
BlockThrows(block) ==
  /\ TypeEnabled(block.type)
  /\ \/ block.config.k \notin {"obj", "arr"}
     \/ /\ block.type = TypeList
        /\ block.config.k = "obj"
        /\ GetProperty(block.config, KeyItems).k \in {"null", "undef"}

\* C12: a block whose rendering throws is replaced by the comment
\* <!-- Error rendering {type} block -->; the fragments of the blocks before
\* it are kept and the blocks after it are rendered.
C12_FailureIsolated ==
  Rendered =>
    \A k \in 1..Len(rbody.blocks) :
      BlockThrows(rbody.blocks[k])
        => rres.html = FragmentsOf(SubSeq(rbody.blocks, 1, k - 1))
                       \o <<"<", "!", "-", "-", " ", "E", "r", "r", "o", "r", " ", "r", "e", "n", "d", "e", "r", "i", "n", "g", " ">> \o rbody.blocks[k].type \o <<" ", "b", "l", "o", "c", "k", " ", "-", "-", ">">>
                       \o FragmentsOf(SubSeq(rbody.blocks, k + 1, Len(rbody.blocks)))

\* each over missing items throws in the first block, the second block renders A
C12_Witness ==
  /\ Rendered
  /\ Len(rbody.blocks) = 2
  /\ rbody.blocks[1] = Block(TypeList, Obj(<< >>))
  /\ rbody.blocks[2].type = TypeNotice
  /\ rres.html = <<"<", "!", "-", "-", " ", "E", "r", "r", "o", "r", " ", "r", "e", "n", "d", "e", "r", "i", "n", "g", " ">> \o TypeList \o <<" ", "b", "l", "o", "c", "k", " ", "-", "-", ">">> \o <<"A">>

\* C15: {{#if x}}A{{/if}} renders nothing when x is absent, "", false, 0 or
\* [], and A when x is "yes" or 1; with {{else}}B the falsy cases render B.
C15_IfFalsyValues ==
  (Rendered /\ Len(rbody.blocks) = 1 /\ rbody.blocks[1].type \in {TypeNotice, TypeNoticeElse}) =>
    LET x == GetProperty(rbody.blocks[1].config, KeyX)
    IN /\ x \in {Undefined, Str(<< >>), Bool(FALSE), Num(0), Arr(<< >>)}
            => rres.html = IF rbody.blocks[1].type = TypeNotice THEN << >> ELSE <<"B">>
       /\ x \in {Str(<<"y", "e", "s">>), Num(1)} => rres.html = <<"A">>

\* a string as a mustache of the block's template shows it
Shown(value) ==
  IF value.k = "str" THEN HbsExpression(Str(EscapeHtml(value.s))) ELSE << >>

\* C16: {{#each items}}{{this.name}}-{{../title}}{{/each}} renders, in array
\* order, one fragment name-title per element of items, name taken from the
\* element and title from the block's config; [{name:"p1"},{name:"p2"}] with
\* title "Shop" gives p1-Shopp2-Shop.
C16_EachInOrder ==
  (Rendered /\ Len(rbody.blocks) = 1 /\ rbody.blocks[1].type = TypeList
     /\ rbody.blocks[1].config.k = "obj") =>
    LET config == rbody.blocks[1].config
        items == GetProperty(config, KeyItems)
    IN /\ (items.k = "arr" /\ \A i \in 1..Len(items.items) : items.items[i].k = "obj")
            => rres.html = Concat([i \in 1..Len(items.items) |->
                                     Shown(GetProperty(items.items[i], KeyName)) \o <<"-">>
                                       \o Shown(GetProperty(config, KeyTitle))])
       /\ (items = Arr(<<Item(<<"p", "1">>), Item(<<"p", "2">>)>>)
             /\ GetProperty(config, KeyTitle) = Str(TitleShop))
            => rres.html = <<"p", "1", "-", "S", "h", "o", "p", "p", "2", "-", "S", "h", "o", "p">>

C16_Witness ==
  /\ Rendered
  /\ Len(rbody.blocks) = 1
  /\ rbody.blocks[1].type = TypeList
  /\ rbody.blocks[1].config.k = "obj"
  /\ GetProperty(rbody.blocks[1].config, KeyItems) = Arr(<<Item(<<"p", "1">>), Item(<<"p", "2">>)>>)
  /\ GetProperty(rbody.blocks[1].config, KeyTitle) = Str(TitleShop)
  /\ rres.html = <<"p", "1", "-", "S", "h", "o", "p", "p", "2", "-", "S", "h", "o", "p">>

\* ------------------------------------------------------------------------
\* Claims about theme activation
\* ------------------------------------------------------------------------
ActiveThemes(tenantId) == {t \in themes : t.tenant_id = tenantId /\ t.is_active = TRUE}

\* C7: at most one theme per tenant has is_active = true, in every state.
C7_AtMostOneActive == \A t \in Tenants : Cardinality(ActiveThemes(t)) <= 1

\* ------------------------------------------------------------------------
\* Claims about page versions
\* ------------------------------------------------------------------------
VersionRow(rowId) == CHOOSE v \in page_versions : v.id = rowId

VersionRowExists(rowId) == \E v \in page_versions : v.id = rowId

\* C1: no two page_versions rows carry the same (page_id, version_number),
\* whatever the interleaving of the requests' MAX reads and inserts.
C1_NoDuplicateVersionNumber ==
  \A v, w \in page_versions :
    (v.page_id = w.page_id /\ v.version_number = w.version_number) => v = w

\* two requests computed the same nextVersion for one page; one wrote its row,
\* the other was rejected
C1_Witness ==
  \E r, q \in Reqs :
    /\ r # q
    /\ req[r].pc = "done" /\ req[r].err = "dup_version"
    /\ req[q].inserted # 0 /\ req[q].id = req[r].id
    /\ VersionRowExists(req[q].inserted)

\* C2: with the PUTs served one after the other (SpecSeq), no version insert
\* is rejected as a duplicate, the row a PUT wrote is the latest of its page
\* until the PUT responds, and the rows of every page are numbered 1..n in
\* the order they were created.
C2_SequentialVersions ==
  /\ \A r \in Reqs : req[r].err # "dup_version"
  /\ \A r \in Reqs :
       (req[r].pc = "update" /\ req[r].inserted # 0 /\ VersionRowExists(req[r].inserted))
         => /\ VersionRow(req[r].inserted).version_number = req[r].nextVersion
            /\ req[r].nextVersion = Cardinality(VersionsOf(req[r].id))
  /\ \A p \in pages :
       /\ VersionNumbers(p.id) = 1..Cardinality(VersionsOf(p.id))
       /\ \A v, w \in VersionsOf(p.id) : (v.id < w.id) <=> (v.version_number < w.version_number)

\* three PUTs in a row on a page that had no versions: rows 1, 2, 3
C2_Witness ==
  \E p \in pages :
    /\ VersionNumbers(p.id) = {1, 2, 3}
    /\ \E r \in Reqs : req[r].pc = "done" /\ req[r].status = 200 /\ req[r].id = p.id
                         /\ VersionRowExists(req[r].inserted)
                         /\ VersionRow(req[r].inserted).version_number = 3

\* C3: a PUT answered with an error leaves no page_versions row of its own.
C3_NoOrphanedVersion ==
  \A r \in Reqs :
    (req[r].pc = "done" /\ req[r].status = 500 /\ req[r].inserted # 0)
      => ~ VersionRowExists(req[r].inserted)

\* C4: a PUT whose version insert was rejected as a duplicate ends applied
\* (answered with the updated row), never given up.
C4_ConflictRetried ==
  \A r \in Reqs :
    (req[r].pc = "done" /\ req[r].err = "dup_version") => req[r].status = 200

\* C5: when a PUT's UPDATE overwrites the page row, the version row that PUT
\* wrote holds the blocks the page row had just before that UPDATE.
C5_UpdateStep(r) ==
  /\ req[r].pc = "update" /\ req[r].inserted # 0
  /\ req'[r].pc = "done" /\ req'[r].status = 200

C5_SnapshotIsPreUpdate ==
  [][\A r \in Reqs :
       C5_UpdateStep(r) =>
         \E v \in page_versions, p \in pages :
           v.id = req[r].inserted /\ p.id = req[r].id /\ v.blocks = p.blocks]_vars

\* C6: the version numbers of every existing page are exactly 1..n, no
\* version row belongs to a page that does not exist, and a stored row stays
\* as it is until its page is deleted.
C6_GapFree ==
  /\ \A v \in page_versions : PageExists(v.page_id)
  /\ \A p \in pages : VersionNumbers(p.id) = 1..Cardinality(VersionsOf(p.id))

C6_AppendOnly ==
  \A v \in page_versions : v \in page_versions' \/ ~ (\E p \in pages' : p.id = v.page_id)

C6_VersionHistory == []C6_GapFree /\ [][C6_AppendOnly]_vars

\* one page was deleted, rows were lost with it or an insert was rejected,
\* and an existing page has a version history
C6_Witness ==
  /\ \E id \in 1..pageSeq : ~ PageExists(id)
  /\ \E p \in pages : VersionNumbers(p.id) # {}
  /\ versionSeq > Cardinality(page_versions)

\* C17: when the INSERT of the version snapshot fails, that step changes no
\* page row and answers 500; and a PUT that found the page only overwrites
\* it with its own version row stored.
C17_FailedInsertStep(r) == req[r].pc = "insert" /\ req'[r].pc = "done"

C17_OverwriteStep(r) ==
  /\ req[r].pc = "update" /\ req[r].existing # << >>
  /\ req'[r].pc = "done" /\ pages' # pages

C17_FailedInsertAborts ==
  [][\A r \in Reqs :
       /\ C17_FailedInsertStep(r)
            => /\ pages' = pages
               /\ page_versions' = page_versions
               /\ req'[r].status = 500
       /\ C17_OverwriteStep(r) => VersionRowExists(req[r].inserted)]_vars

\* an insert was rejected and answered 500; the page is as it was created
C17_Witness ==
  \E r \in Reqs :
    /\ req[r].pc = "done" /\ req[r].status = 500
    /\ req[r].err \in {"dup_version", "fk_page"}
    /\ \E p \in pages : p.id = req[r].id /\ p.blocks = EmptyBlocks

\* C19: a PUT whose id names no page of the caller's tenant takes the path
\* without snapshot; none of its steps writes a page_versions row or changes
\* a page row, and its UPDATE, matching no row, is answered 404.
C19_NamesNoPage(id, tenantId) == ~ \E p \in pages : p.id = id /\ p.tenant_id = tenantId

C19_UnknownPageUntouched ==
  [][\A r \in Reqs :
       /\ (req'[r] # req[r] /\ req'[r].pc # "done" /\ req[r].pc \in {"idle", "done"}
             /\ C19_NamesNoPage(req'[r].id, req'[r].tenantId))
            => /\ req'[r].pc = "update" /\ req'[r].existing = << >>
               /\ pages' = pages /\ page_versions' = page_versions
       /\ (req'[r] # req[r] /\ req[r].pc \in {"max", "insert", "update"}
             /\ C19_NamesNoPage(req[r].id, req[r].tenantId))
            => /\ pages' = pages /\ page_versions' = page_versions
               /\ (req[r].pc = "update" /\ req'[r].err = "none") => req'[r].status = 404]_vars

\* a PUT of tenant t1 on a page of another tenant was answered 404; the page
\* is as it was created and has no version
C19_Witness ==
  \E r \in Reqs, p \in pages :
    /\ req[r].pc = "done" /\ req[r].status = 404 /\ req[r].id = p.id
    /\ p.tenant_id # req[r].tenantId
    /\ p.blocks = EmptyBlocks
    /\ VersionsOf(p.id) = {}

\* C18: a theme request that names a theme id not belonging to the caller's
\* tenant changes the is_active flag of no theme: none of its steps writes
\* to table themes.
C18_NamesNoTheme(q) ==
  ~ \E t \in themes : t.id = treq[q].id /\ t.tenant_id = treq[q].tenantId

C18_AllOrNothing ==
  [][\A q \in DOMAIN treq :
       (treq'[q] # treq[q] /\ treq[q].pc \notin {"idle", "done"} /\ C18_NamesNoTheme(q))
         => themes' = themes]_vars

\* the strings of a value in order, each with the key that holds it (for an
\* element of an array its index)
RECURSIVE StringLeaves(_, _)
StringLeaves(key, value) ==
  CASE value.k = "str" -> <<[key |-> key, s |-> value.s]>>
    [] value.k = "arr" ->
         Concat([i \in 1..Len(value.items) |-> StringLeaves(Digits(i - 1), value.items[i])])
    [] value.k = "obj" ->
         Concat([i \in 1..Len(value.entries) |->
                   StringLeaves(value.entries[i][1], value.entries[i][2])])
    [] OTHER -> << >>

\* C20: escapeBlockConfig keeps a string verbatim exactly when the key that
\* holds it is content, at any depth; every other string, also one inside an
\* object or array stored under content, comes back escaped.
C20_ExemptionPerKey ==
  escaped # Undefined =>
    LET given == StringLeaves(<< >>, econfig)
        got == StringLeaves(<< >>, escaped)
    IN /\ Len(got) = Len(given)
       /\ \A i \in 1..Len(given) :
            /\ got[i].key = given[i].key
            /\ got[i].s = IF given[i].key = KeyContent THEN given[i].s
                          ELSE EscapedOnce(given[i].s)

\* {content: {title: "<"}} came back with title escaped
C20_Witness ==
  /\ econfig = Obj(<<<<KeyContent, Obj(<<<<KeyTitle, Str(<<"<">>)>>>>)>>>>)
  /\ escaped = Obj(<<<<KeyContent, Obj(<<<<KeyTitle, Str(<<"&", "l", "t", ";">>)>>>>)>>>>)

\* a text as a mustache shows it
MustacheText(text) == Concat([i \in 1..Len(text) |-> HbsEscapeChar(text[i])])

\* C21: the template of a found block sees year = the current year and
\* jsonConfig = the JSON text of the config as it was supplied, also when the
\* config has keys year and jsonConfig of its own:
\* {jsonConfig: "x", title: "<"} shows {"jsonConfig":"x","title":"<"}.
C21_ScopeInjected ==
  (Rendered /\ Len(rbody.blocks) = 1 /\ rbody.blocks[1].type = TypeStamp) =>
    LET config == rbody.blocks[1].config
    IN /\ rres.html = Digits(CurrentYear) \o <<":">> \o MustacheText(JsonStringify(config))
       /\ config = Obj(<<<<KeyJsonConfig, Str(<<"x">>)>>, <<KeyTitle, Str(<<"<">>)>>>>)
            => rres.html = Digits(CurrentYear) \o <<":">> \o MustacheText(<<"{", "\"", "j", "s", "o", "n", "C", "o", "n", "f", "i", "g", "\"", ":", "\"", "x", "\"", ",", "\"", "t", "i", "t", "l", "e", "\"", ":", "\"", "<", "\"", "}">>)

\* a config with its own year was rendered with the current year
C21_Witness ==
  /\ Rendered
  /\ Len(rbody.blocks) = 1
  /\ rbody.blocks[1] = Block(TypeStamp, Obj(<<<<KeyYear, Str(<<"1", "9", "9", "9">>)>>>>))
  /\ SubSeq(rres.html, 1, 5) = Digits(CurrentYear) \o <<":">>

RECURSIVE SameShape(_, _)
\* b has an array of the same length wherever a has one, and an object of
\* the same keys wherever a has one
SameShape(a, b) ==
  CASE a.k = "arr" ->
         /\ b.k = "arr"
         /\ Len(b.items) = Len(a.items)
         /\ \A i \in 1..Len(a.items) : SameShape(a.items[i], b.items[i])
    [] a.k = "obj" ->
         /\ b.k = "obj"
         /\ Len(b.entries) = Len(a.entries)
         /\ \A i \in 1..Len(a.entries) :
              /\ b.entries[i][1] = a.entries[i][1]
              /\ SameShape(a.entries[i][2], b.entries[i][2])
    [] OTHER -> b.k = a.k

\* C23: escapeBlockConfig returns a value of the shape of its argument:
\* arrays stay arrays of the same length at every depth, objects keep their
\* keys.
C23_ShapePreserved == escaped # Undefined => SameShape(econfig, escaped)

\* the block's template runs each over items and its config has no items,
\* or is null, or is missing
EachWithoutField(block) ==
  /\ block.type = TypeList
  /\ \/ block.config.k \in {"null", "undef"}
     \/ block.config.k = "obj" /\ GetProperty(block.config, KeyItems) = Undefined

\* C24: such a block is rendered as the error comment and nothing else, and
\* the blocks after it are rendered.
C24_MissingFieldIsError ==
  Rendered =>
    \A k \in 1..Len(rbody.blocks) :
      EachWithoutField(rbody.blocks[k])
        => LET before == FragmentsOf(SubSeq(rbody.blocks, 1, k - 1))
               after == FragmentsOf(SubSeq(rbody.blocks, k + 1, Len(rbody.blocks)))
               marker == <<"<", "!", "-", "-", " ", "E", "r", "r", "o", "r", " ", "r", "e", "n", "d", "e", "r", "i", "n", "g", " ", "l", "i", "s", "t", " ", "b", "l", "o", "c", "k", " ", "-", "-", ">">>
           IN /\ Len(rres.html) = Len(before) + Len(marker) + Len(after)
              /\ SubSeq(rres.html, Len(before) + 1, Len(before) + Len(marker)) = marker
              /\ SubSeq(rres.html, Len(before) + Len(marker) + 1, Len(rres.html)) = after

\* a list block with a title and no items, then a block that rendered A
C24_Witness ==
  /\ Rendered
  /\ Len(rbody.blocks) = 2
  /\ rbody.blocks[1] = Block(TypeList, Obj(<<<<KeyTitle, Str(TitleShop)>>>>))
  /\ rbody.blocks[2].type = TypeNoticeElse
  /\ rres.html = <<"<", "!", "-", "-", " ", "E", "r", "r", "o", "r", " ", "r", "e", "n", "d", "e", "r", "i", "n", "g", " ", "l", "i", "s", "t", " ", "b", "l", "o", "c", "k", " ", "-", "-", ">">> \o <<"A">>

\* C22: a render resolves all of its blocks against one set of block types,
\* the enabled rows its SELECT found: the rows are taken in one statement and
\* the output is that of rendering the whole list against them, whatever was
\* written to block_types before the loop ran.
C22_QueryStep == rpc = "request" /\ rpc' = "loaded" => rtemplates' = EnabledBlockTypes

C22_OneSetOfTypes ==
  (rpc = "done" /\ rres.status = 200) =>
    rres.html = Concat([i \in 1..Len(rbody.blocks) |->
                          BlockFragmentIn(TemplateLookupIn(rtemplates, rbody.blocks[i].type),
                                          rbody.blocks[i])])

C22_SelfConsistent == []C22_OneSetOfTypes /\ [][C22_QueryStep]_vars

\* the table was written to between the SELECT and the loop: a type the
\* render found is no longer enabled, and its block is in the output
C22_Witness ==
  /\ rpc = "done"
  /\ Len(rbody.blocks) = 2
  /\ rbody.blocks[2].type = TypeHero
  /\ \E bt \in rtemplates : bt.name = TypeHero /\ bt.template = HeroTemplate
  /\ ~ \E bt \in EnabledBlockTypes : bt.name = TypeHero
  /\ Contains(rres.html, <<"<", "h", "1", ">", "a">>)

\* ------------------------------------------------------------------------
\* POST /api/checkout: two shoppers buy the same product, one cart item each
\* ------------------------------------------------------------------------
MaxInventory == 2
MaxQuantity == 2
Shoppers == {"c1", "c2"}

IdleCheckoutReq ==
  [pc |-> "idle", known |-> FALSE, quantity |-> 0, tx |-> "none",
   released |-> FALSE, status |-> 0]

InitCheckout ==
  /\ inventory \in 0..MaxInventory
  /\ inventory0 = inventory
  /\ rowLock = "none"
  /\ creq = [c \in Shoppers |-> IdleCheckoutReq]
  /\ IdlePages
  /\ IdleThemes
  /\ IdleRender
  /\ IdleEscape
  /\ IdleRate
  /\ IdleStore
  /\ IdleAuth

\* the response is sent, then finally releases the client to the pool;
\* tx is what the client's transaction is at that moment
CheckoutDone(c, tx, status) ==
  /\ creq' = [creq EXCEPT ![c].pc = "done", ![c].tx = tx,
                          ![c].released = TRUE, ![c].status = status]
  /\ rowLock' = IF tx # "open" /\ rowLock = c THEN "none" ELSE rowLock

\* catch: ROLLBACK gives up the row lock and the pending update, then 500
CheckoutCaught(c) ==
  /\ CheckoutDone(c, "rolledback", 500)
  /\ UNCHANGED <<inventory, inventory0>>

\* db.connect() and BEGIN, for a body that passed the 400 validation
CheckoutBegin(c, known, quantity) ==
  /\ creq[c].pc = "idle"
  /\ creq' = [creq EXCEPT ![c].pc = "tenant", ![c].known = known,
                          ![c].quantity = quantity, ![c].tx = "open"]
  /\ UNCHANGED <<inventory, inventory0, rowLock, notCheckoutVars>>

\* SELECT id FROM tenants WHERE subdomain = $1; no row: 404 from inside try
CheckoutTenant(c) ==
  /\ creq[c].pc = "tenant"
  /\ IF creq[c].known
       THEN /\ creq' = [creq EXCEPT ![c].pc = "product"]
            /\ UNCHANGED rowLock
       ELSE CheckoutDone(c, "open", 404)
  /\ UNCHANGED <<inventory, inventory0, notCheckoutVars>>

\* SELECT price, inventory FROM products: the committed row, no row lock;
\* product.inventory < item.quantity throws
CheckoutProduct(c) ==
  /\ creq[c].pc = "product"
  /\ IF inventory < creq[c].quantity
       THEN CheckoutCaught(c)
       ELSE /\ creq' = [creq EXCEPT ![c].pc = "update"]
            /\ UNCHANGED <<inventory, inventory0, rowLock>>
  /\ UNCHANGED notCheckoutVars

\* UPDATE products SET inventory = inventory - $1: waits for the row lock of
\* another open transaction, then holds it until COMMIT or ROLLBACK
CheckoutUpdate(c) ==
  /\ creq[c].pc = "update"
  /\ rowLock \in {"none", c}
  /\ rowLock' = c
  /\ creq' = [creq EXCEPT ![c].pc = "order"]
  /\ UNCHANGED <<inventory, inventory0, notCheckoutVars>>

\* INSERT INTO orders
CheckoutOrder(c) ==
  /\ creq[c].pc = "order"
  /\ creq' = [creq EXCEPT ![c].pc = "commit"]
  /\ UNCHANGED <<inventory, inventory0, rowLock, notCheckoutVars>>

\* COMMIT: the update, computed from the row as it is once the lock is held,
\* becomes the committed row; then res.json({ success: true, order })
CheckoutCommit(c) ==
  /\ creq[c].pc = "commit"
  /\ inventory' = inventory - creq[c].quantity
  /\ CheckoutDone(c, "committed", 200)
  /\ UNCHANGED <<inventory0, notCheckoutVars>>

\* a query of the transaction throws
CheckoutFails(c) ==
  /\ creq[c].pc \in {"tenant", "product", "update", "order", "commit"}
  /\ CheckoutCaught(c)
  /\ UNCHANGED notCheckoutVars

NextCheckout ==
  \/ \E c \in Shoppers, known \in BOOLEAN, quantity \in 1..MaxQuantity :
       CheckoutBegin(c, known, quantity)
  \/ \E c \in Shoppers : CheckoutTenant(c)
  \/ \E c \in Shoppers : CheckoutProduct(c)
  \/ \E c \in Shoppers : CheckoutUpdate(c)
  \/ \E c \in Shoppers : CheckoutOrder(c)
  \/ \E c \in Shoppers : CheckoutCommit(c)
  \/ \E c \in Shoppers : CheckoutFails(c)

SpecCheckout == InitCheckout /\ [][NextCheckout]_vars

RECURSIVE SumOver(_, _)
SumOver(f, S) ==
  IF S = {} THEN 0
  ELSE LET x == CHOOSE y \in S : TRUE IN f[x] + SumOver(f, S \ {x})

\* total quantity of the checkouts answered with success
Sold ==
  SumOver([c \in DOMAIN creq |-> creq[c].quantity],
          {c \in DOMAIN creq : creq[c].status = 200})

\* C25: with checkouts of the same product running at once, the inventory is
\* never negative and the successful checkouts never sell more than the
\* inventory there was before them
C25_NoOversell ==
  /\ inventory >= 0
  /\ Sold <= inventory0

\* C26: whenever a checkout has released its client to the pool, the
\* transaction it opened on that client was committed or rolled back
C26_ClosedBeforeRelease ==
  \A c \in DOMAIN creq :
    creq[c].released => creq[c].tx \in {"committed", "rolledback"}

\* ------------------------------------------------------------------------
\* rateLimit(key, maxRequests, windowMs)
\* ------------------------------------------------------------------------
MaxNow == 4
MaxLimit == 2
MaxWindow == 2
RateKeys == {"ip1:/api/signup", "ip2:/api/signup"}

InitRate ==
  /\ rateLimitCache = << >>
  /\ now = 0
  /\ maxRequests \in 1..MaxLimit
  /\ windowMs \in 1..MaxWindow
  /\ accepted = [k \in RateKeys |-> << >>]
  /\ lastCall = [key |-> "none", result |-> FALSE]
  /\ IdlePages
  /\ IdleThemes
  /\ IdleRender
  /\ IdleEscape
  /\ IdleCheckout
  /\ IdleStore
  /\ IdleAuth

\* rateLimitCache.get(key) || []
CachedRequests(key) ==
  IF key \in DOMAIN rateLimitCache THEN rateLimitCache[key] ELSE << >>

\* requests.filter(time => now - time < windowMs)
RecentRequests(key) ==
  SelectSeq(CachedRequests(key), LAMBDA time : now - time < windowMs)

LimitReachedOffByOne(recentRequests) == Len(recentRequests) > maxRequests

\* recentRequests.length >= maxRequests
LimitReached(recentRequests) == Len(recentRequests) >= maxRequests

\* one call of rateLimit
RateLimit(key) ==
  LET recentRequests == RecentRequests(key) IN
    IF LimitReached(recentRequests)
      THEN /\ lastCall' = [key |-> key, result |-> FALSE]
           /\ UNCHANGED <<rateLimitCache, accepted>>
      ELSE /\ rateLimitCache' =
                [k \in DOMAIN rateLimitCache \cup {key} |->
                   IF k = key THEN Append(recentRequests, now)
                   ELSE rateLimitCache[k]]
           /\ accepted' = [accepted EXCEPT ![key] = Append(@, now)]
           /\ lastCall' = [key |-> key, result |-> TRUE]

RateLimitCall(key) ==
  /\ RateLimit(key)
  /\ UNCHANGED <<now, maxRequests, windowMs, notRateVars>>

\* a millisecond passes; times that no window of length windowMs can hold
\* together with the time of a later call leave the record
Tick ==
  /\ now < MaxNow
  /\ now' = now + 1
  /\ accepted' = [key \in RateKeys |->
                   SelectSeq(accepted[key],
                             LAMBDA time : time + windowMs > now')]
  /\ UNCHANGED <<rateLimitCache, maxRequests, windowMs, lastCall,
                 notRateVars>>

NextRate ==
  \/ \E key \in RateKeys : RateLimitCall(key)
  \/ Tick

SpecRate == InitRate /\ [][NextRate]_vars

\* number of calls of a key let through at times t .. t + windowMs - 1
AcceptedIn(key, t) ==
  Cardinality({i \in DOMAIN accepted[key] :
                 t <= accepted[key][i] /\ accepted[key][i] < t + windowMs})

C27_WindowBound ==
  \A key \in DOMAIN accepted : \A t \in 0..now :
    AcceptedIn(key, t) <= maxRequests

C27_CallStep ==
  now' = now =>
    /\ lastCall'.result = FALSE => rateLimitCache' = rateLimitCache
    /\ \A key \in RateKeys \ {lastCall'.key} :
         /\ CachedRequests(key)' = CachedRequests(key)
         /\ accepted'[key] = accepted[key]
    /\ lastCall'.result = (Len(RecentRequests(lastCall'.key)) < maxRequests)

\* C27: for every key no window of length windowMs holds more than
\* maxRequests accepted calls; a rejected call leaves the cache as it was (so
\* it is not recorded and delays nothing) and a call changes nothing of
\* another key, whose calls are decided by its own recent requests alone
C27_SlidingWindow == []C27_WindowBound /\ [][C27_CallStep]_vars

\* the latest call was rejected for a key whose window has passed since, so
\* that its next call is let through, while the other key is at its limit
C27_Witness ==
  \E key \in RateKeys, other \in RateKeys :
    /\ lastCall = [key |-> key, result |-> FALSE]
    /\ Len(CachedRequests(key)) = maxRequests
    /\ ~ LimitReached(RecentRequests(key))
    /\ other # key
    /\ Len(accepted[other]) = maxRequests
    /\ LimitReached(RecentRequests(other))

\* ------------------------------------------------------------------------
\* GET /api/storefront/:subdomain, with signup and the admin's status change
\* ------------------------------------------------------------------------
Subdomains == {"shop", "cafe"}
TenantStatuses == {"active", "suspended", "deleted"}

\* wasActive records whether the tenant's status was 'active' at any moment
\* since the request came in
IdleStoreReq ==
  [pc |-> "idle", subdomain |-> "none", tenantId |-> "none",
   wasActive |-> FALSE, status |-> 0]

InitStore ==
  /\ tenantStatus = [s \in Subdomains |-> "none"]
  /\ subdomainCache = [s \in Subdomains |-> "none"]
  /\ sreq = IdleStoreReq
  /\ IdlePages
  /\ IdleThemes
  /\ IdleRender
  /\ IdleEscape
  /\ IdleCheckout
  /\ IdleRate
  /\ IdleAuth

\* POST /api/signup: the tenant row with status 'active', the cache entry
\* (24 hours), COMMIT; a tenant is identified by its subdomain here
SignupTenant(s) ==
  /\ tenantStatus[s] = "none"
  /\ tenantStatus' = [tenantStatus EXCEPT ![s] = "active"]
  /\ subdomainCache' = [subdomainCache EXCEPT ![s] = s]
  /\ UNCHANGED <<sreq, notStoreVars>>

\* PATCH /api/admin/tenants/:id/status
PatchTenantStatus(s, status) ==
  /\ tenantStatus[s] # "none"
  /\ tenantStatus' = [tenantStatus EXCEPT ![s] = status]
  /\ sreq' = IF sreq.pc \notin {"idle", "done"} /\ sreq.subdomain = s
                  /\ status = "active"
               THEN [sreq EXCEPT !.wasActive = TRUE]
               ELSE sreq
  /\ UNCHANGED <<subdomainCache, notStoreVars>>

\* the EX time of a cache entry runs out
CacheExpires(s) ==
  /\ subdomainCache[s] # "none"
  /\ subdomainCache' = [subdomainCache EXCEPT ![s] = "none"]
  /\ UNCHANGED <<tenantStatus, sreq, notStoreVars>>

StoreRespond(status) ==
  sreq' = [sreq EXCEPT !.pc = "done", !.status = status]

\* the request comes in: tenantId = await redis.get(...)
StorefrontGet(s) ==
  /\ sreq.pc \in {"idle", "done"}
  /\ sreq' = [pc |-> IF subdomainCache[s] = "none" THEN "select" ELSE "fetch",
              subdomain |-> s, tenantId |-> subdomainCache[s],
              wasActive |-> (tenantStatus[s] = "active"), status |-> 0]
  /\ UNCHANGED <<tenantStatus, subdomainCache, notStoreVars>>

\* if (!tenantId): SELECT ... status FROM tenants WHERE subdomain = $1
StorefrontSelect ==
  /\ sreq.pc = "select"
  /\ IF tenantStatus[sreq.subdomain] = "none" THEN StoreRespond(404)
     ELSE IF tenantStatus[sreq.subdomain] # "active" THEN StoreRespond(403)
     ELSE sreq' = [sreq EXCEPT !.pc = "cache", !.tenantId = sreq.subdomain]
  /\ UNCHANGED <<tenantStatus, subdomainCache, notStoreVars>>

\* redis.set(subdomain:<subdomain>, tenantId, { EX: 3600 })
StorefrontCache ==
  /\ sreq.pc = "cache"
  /\ subdomainCache' = [subdomainCache EXCEPT ![sreq.subdomain] = sreq.tenantId]
  /\ sreq' = [sreq EXCEPT !.pc = "fetch"]
  /\ UNCHANGED <<tenantStatus, notStoreVars>>

\* storeResult, productsResult by tenantId; res.json({ store, products })
StorefrontFetch ==
  /\ sreq.pc = "fetch"
  /\ StoreRespond(200)
  /\ UNCHANGED <<tenantStatus, subdomainCache, notStoreVars>>

\* redis or db throws: catch answers 500
StorefrontFails ==
  /\ sreq.pc \in {"select", "cache", "fetch"}
  /\ StoreRespond(500)
  /\ UNCHANGED <<tenantStatus, subdomainCache, notStoreVars>>

NextStore ==
  \/ \E s \in Subdomains : SignupTenant(s)
  \/ \E s \in Subdomains, status \in TenantStatuses : PatchTenantStatus(s, status)
  \/ \E s \in Subdomains : CacheExpires(s)
  \/ \E s \in Subdomains : StorefrontGet(s)
  \/ StorefrontSelect
  \/ StorefrontCache
  \/ StorefrontFetch
  \/ StorefrontFails

SpecStore == InitStore /\ [][NextStore]_vars

\* C28: a storefront request answered with store and product data is for a
\* tenant whose status was 'active' at some moment of the request, whether
\* the tenant id came from the cache or from the database
C28_OnlyActiveStores ==
  (sreq.pc = "done" /\ sreq.status = 200) => sreq.wasActive

\* ------------------------------------------------------------------------
\* authMiddleware of index.js and the API Gateway compatible authMiddleware
\* ------------------------------------------------------------------------
MaxAuditRows == 2
JWT_SECRET == "secret"
ForgedSecret == "guess"
SuperAdminId == 0
UserIds == {SuperAdminId, 7}
Variants == {"index", "gateway"}
TenantIds == {1, 2}

\* a token is its payload and the secret it was signed with
Tokens ==
  [userId : UserIds, tenantId : TenantIds,
   secret : {JWT_SECRET, ForgedSecret}]
NoToken == [userId |-> -1, tenantId |-> -1, secret |-> "none"]
NoHeader == -1

\* jwt.verify(token, JWT_SECRET) does not throw
JwtVerify(token) == token.secret = JWT_SECRET

IdleAuthReq ==
  [pc |-> "idle", variant |-> "index", xTenantId |-> NoHeader,
   token |-> NoToken, userId |-> -1, tenantId |-> -1,
   rowsBefore |-> 0, insertFailed |-> FALSE, out |-> "none"]

InitAuth ==
  /\ audit_logs = << >>
  /\ areq = IdleAuthReq
  /\ IdlePages
  /\ IdleThemes
  /\ IdleRender
  /\ IdleEscape
  /\ IdleCheckout
  /\ IdleRate
  /\ IdleStore

\* "next" for next(), "401" for res.status(401)
AuthOut(out) == areq' = [areq EXCEPT !.pc = "done", !.out = out]

\* a request reaches a route that has the middleware
AuthArrive(variant, xTenantId, token) ==
  /\ areq.pc \in {"idle", "done"}
  /\ Len(audit_logs) < MaxAuditRows
  /\ areq' = [IdleAuthReq EXCEPT !.pc = "start", !.variant = variant,
                                 !.xTenantId = xTenantId, !.token = token,
                                 !.rowsBefore = Len(audit_logs)]
  /\ UNCHANGED <<audit_logs, notAuthVars>>

\* the variant's x-tenant-id branch: the header is trusted
GatewayTrust ==
  /\ areq.pc = "start"
  /\ areq.variant = "gateway"
  /\ areq.xTenantId # NoHeader
  /\ areq' = [areq EXCEPT !.pc = "gwaudit", !.userId = SuperAdminId,
                          !.tenantId = areq.xTenantId]
  /\ UNCHANGED <<audit_logs, notAuthVars>>

\* its audit insert sits in a try of its own; then return next()
GatewayAudit(fails) ==
  /\ areq.pc = "gwaudit"
  /\ audit_logs' = IF fails THEN audit_logs
                   ELSE Append(audit_logs, [user_id |-> 0,
                                            tenant_id |-> areq.tenantId])
  /\ areq' = [areq EXCEPT !.pc = "done", !.out = "next",
                          !.insertFailed = fails]
  /\ UNCHANGED notAuthVars

\* if (req.userId !== 0), which only index.js has
AuditSkipped(variant, userId) == variant = "index" /\ userId = SuperAdminId

\* no token: 401; jwt.verify throws: catch, 401; else req.userId, req.tenantId
AuthVerify ==
  /\ areq.pc = "start"
  /\ areq.variant = "gateway" => areq.xTenantId = NoHeader
  /\ IF areq.token = NoToken \/ ~ JwtVerify(areq.token)
       THEN AuthOut("401")
       ELSE IF AuditSkipped(areq.variant, areq.token.userId)
         THEN areq' = [areq EXCEPT !.pc = "done", !.out = "next",
                                   !.userId = areq.token.userId,
                                   !.tenantId = areq.token.tenantId]
         ELSE areq' = [areq EXCEPT !.pc = "audit",
                                   !.userId = areq.token.userId,
                                   !.tenantId = areq.token.tenantId]
  /\ UNCHANGED <<audit_logs, notAuthVars>>

AuditFailureSwallowed == "next"

\* what the catch around jwt.verify and the insert answers
AuditFailureOut == "401"

\* await db.query(INSERT INTO audit_logs ...); next()
AuthAudit(fails) ==
  /\ areq.pc = "audit"
  /\ audit_logs' = IF fails THEN audit_logs
                   ELSE Append(audit_logs, [user_id |-> areq.userId,
                                            tenant_id |-> areq.tenantId])
  /\ areq' = [areq EXCEPT !.pc = "done", !.insertFailed = fails,
                          !.out = IF fails THEN AuditFailureOut ELSE "next"]
  /\ UNCHANGED notAuthVars

NextAuth ==
  \/ \E variant \in Variants, xTenantId \in TenantIds \cup {NoHeader},
        token \in Tokens \cup {NoToken} :
       AuthArrive(variant, xTenantId, token)
  \/ GatewayTrust
  \/ \E fails \in BOOLEAN : GatewayAudit(fails)
  \/ AuthVerify
  \/ \E fails \in BOOLEAN : AuthAudit(fails)

SpecAuth == InitAuth /\ [][NextAuth]_vars

\* C29: either middleware calls next only for a request whose token verifies
\* against JWT_SECRET, and the handler's tenant id is the one in that token
C29_NextOnlyWithJwt ==
  areq.out = "next" =>
    /\ areq.token # NoToken
    /\ areq.token.secret = JWT_SECRET
    /\ areq.tenantId = areq.token.tenantId

\* the latest row of audit_logs was inserted for the request at hand
AuditRowInserted ==
  /\ Len(audit_logs) = areq.rowsBefore + 1
  /\ audit_logs[Len(audit_logs)] =
       [user_id |-> areq.userId, tenant_id |-> areq.tenantId]

\* C30: in index.js a request with a valid token of a user other than 0 is
\* handed to its route handler only with its audit_logs row inserted; a
\* failed insert rejects the request instead; a valid token of user 0 is
\* handed on with no audit row
C30_AuditBeforeHandler ==
  (areq.variant = "index" /\ areq.pc = "done") =>
    /\ (areq.out = "next" /\ areq.userId # 0) => AuditRowInserted
    /\ areq.insertFailed => areq.out = "401"
    /\ (JwtVerify(areq.token) /\ areq.token.userId = 0) =>
         (areq.out = "next" /\ Len(audit_logs) = areq.rowsBefore)

\* a merchant's request went through with its row, and the next one was
\* rejected because its insert failed
C30_Witness ==
  /\ areq.variant = "index"
  /\ areq.pc = "done"
  /\ areq.insertFailed
  /\ areq.out = "401"
  /\ JwtVerify(areq.token)
  /\ Len(audit_logs) = 1
  /\ audit_logs[1].user_id # SuperAdminId

====
